---- MODULE Spec2Model ----
(***************************************************************************)
(* Stock Risk Advisor v3.3 (src/main.py): the RiskCalculator scoring,      *)
(* allocation and investment-sizing functions and the Streamlit session    *)
(* state machine that drives them.                                         *)
(*                                                                         *)
(* Number representation.  The program computes in binary floating point   *)
(* and rounds what it returns with round(x, 2) or round(x, 1).  The model  *)
(* computes the same quantities exactly, as integers over a fixed          *)
(* denominator:                                                            *)
(*   scores       hundredths of a point     (83.33 points  -> 8333)        *)
(*   percentages  tenths of a percent       (12.3 %        -> 123)         *)
(*   money        paise in returned plans   (1250.50 rupees -> 125050),    *)
(*                rupees for income and expenses                           *)
(* A value that lies exactly halfway between two representable results is  *)
(* rounded by the program according to the binary error of the float that  *)
(* holds it (to the even neighbour when the float is exact); fp_tie is the *)
(* way such values fall: down, up, to the even or to the odd neighbour.    *)
(* It is chosen in the initial state and is the same for every rounding    *)
(* of a behaviour.                                                         *)
(***************************************************************************)
EXTENDS Integers, Sequences, FiniteSets, TLC

VARIABLES
    \* st.session_state (init_session_state)
    current_tab, answers, dependent_answers, risk_data, risk_category,
    financial_data, debt_data, safe_investment, assessment_complete,
    allocation, recommendations, assessment_id, validation_warnings,
    inflation_preference, show_inflation_education,
    \* the committed values of the widgets of st.form("assessment_form")
    form,
    \* module-level table ETFS_DB, the clock and the CSV store
    etfs_db, clock, csv_rows,
    \* direct calls of RiskCalculator functions: the function, its
    \* arguments, its result and the result of the previous identical call
    fn, args, ret, prev,
    \* direction of round() on exact decimal ties
    fp_tie

vars == <<current_tab, answers, dependent_answers, risk_data, risk_category,
          financial_data, debt_data, safe_investment, assessment_complete,
          allocation, recommendations, assessment_id, validation_warnings,
          inflation_preference, show_inflation_education, form,
          etfs_db, clock, csv_rows, fn, args, ret, prev, fp_tie>>

session_vars == <<current_tab, answers, dependent_answers, risk_data,
                  risk_category, financial_data, debt_data, safe_investment,
                  assessment_complete, allocation, recommendations,
                  assessment_id, validation_warnings, inflation_preference,
                  show_inflation_education, form, clock, csv_rows>>

call_vars == <<fn, args, ret, prev>>

----------------------------------------------------------------------------
(* Constants of the program *)

None == -1
NoneRec == [none |-> TRUE]

MINIMUM_INVESTMENT_THRESHOLD == 500

AGE_EQUITY_MAP == [a \in 1..6 |-> CASE a = 1 -> 85 [] a = 2 -> 75 [] a = 3 -> 65
                                    [] a = 4 -> 55 [] a = 5 -> 40 [] a = 6 -> 30]

TIMEFRAME_MAP == [t \in 1..6 |-> CASE t = 1 -> 1 [] t = 2 -> 3 [] t = 3 -> 6
                                   [] t = 4 -> 10 [] t = 5 -> 15 [] t = 6 -> 10]

\* weights that do not sum to one: financial stability counted at 0.35
WEIGHTS_unnormalised == [financial_stability |-> 35, debt_situation |-> 15,
                         risk_tolerance |-> 25, investment_horizon |-> 20,
                         knowledge_experience |-> 15]

\* WEIGHTS, in hundredths
WEIGHTS == [financial_stability |-> 25, debt_situation |-> 15,
            risk_tolerance |-> 25, investment_horizon |-> 20,
            knowledge_experience |-> 15]

ETFS_DB == [c \in {"VERY LOW RISK", "LOW RISK", "MEDIUM RISK", "HIGH RISK",
                   "VERY HIGH RISK"} |->
             CASE c = "VERY LOW RISK" -> <<"NIFTYBEES", "GOLDBEES">>
               [] c = "LOW RISK" -> <<"NIFTYBEES", "MIDCAPBEES">>
               [] c = "MEDIUM RISK" -> <<"NIFTYBEES", "MIDCAPBEES">>
               [] c = "HIGH RISK" -> <<"MIDCAPBEES", "SMLCAPBEES">>
               [] c = "VERY HIGH RISK" -> <<"SMLCAPBEES">>]

RiskCategories == <<"VERY LOW RISK", "LOW RISK", "MEDIUM RISK", "HIGH RISK",
                    "VERY HIGH RISK">>

\* index 1..5 of a category name (0 for anything else)
CategoryIndex(c) ==
    IF \E i \in 1..5 : RiskCategories[i] = c
    THEN CHOOSE i \in 1..5 : RiskCategories[i] = c
    ELSE 0

----------------------------------------------------------------------------
(* Exact arithmetic *)

Max(a, b) == IF a >= b THEN a ELSE b
Min(a, b) == IF a <= b THEN a ELSE b
Abs(a) == IF a >= 0 THEN a ELSE -a

RECURSIVE GCD(_, _)
GCD(a, b) == IF b = 0 THEN a ELSE GCD(b, a % b)

\* <<q, r>> with a * b = q * c + r and 0 <= r < c, for a, b >= 0 and c > 0,
\* computed without forming the product a * b
RECURSIVE MulDiv(_, _, _)
MulDiv(a, b, c) ==
    IF b = 0 THEN <<0, 0>>
    ELSE LET h  == MulDiv(a, b \div 2, c)
             q2 == 2 * h[1] + ((2 * h[2]) \div c)
             r2 == (2 * h[2]) % c
         IN  IF b % 2 = 0 THEN <<q2, r2>>
             ELSE <<q2 + (a \div c) + ((r2 + (a % c)) \div c),
                    (r2 + (a % c)) % c>>

TieRules == {"down", "up", "even", "odd"}

\* round(): the integer nearest to q + r / c (0 <= r < c); an exact tie
\* falls as fp_tie says
RoundQR(q, r, c) ==
    IF 2 * r < c THEN q
    ELSE IF 2 * r > c THEN q + 1
    ELSE CASE fp_tie = "up" -> q + 1
           [] fp_tie = "even" -> IF q % 2 = 0 THEN q ELSE q + 1
           [] fp_tie = "odd" -> IF q % 2 = 1 THEN q ELSE q + 1
           [] OTHER -> q

\* round(n / d) for d > 0
Round(n, d) == RoundQR(n \div d, n % d, d)

----------------------------------------------------------------------------
(* RiskCalculator: scoring *)

\* dict.get(key, default) on a dict modelled as a function
Get(d, k, default) == IF k \in DOMAIN d THEN d[k] ELSE default

\* map_to_score with the sense of 'reverse' exchanged
map_to_score_flipped(value, min_val, max_val, reverse) ==
    LET v == IF reverse THEN value ELSE max_val - value + min_val
    IN  ((v - min_val) * 100) \div (max_val - min_val)

\* Map a tier to a 0-100 score, in points.  Every call site uses the default
\* range min_val = 1, max_val = 6, for which the quotient is exact.
map_to_score(value, min_val, max_val, reverse) ==
    LET v == IF reverse THEN max_val - value + min_val ELSE value
    IN  ((v - min_val) * 100) \div (max_val - min_val)

required_questions ==
    <<"income", "expenses", "emergency_fund", "loan_types", "emi_percentage",
      "income_stability", "dependents", "primary_goal", "timeframe",
      "loss_avoidance", "market_drop_reaction", "experience", "knowledge",
      "liquidity_needs", "age_group">>

\* answers[q] is None.  loan_types is a collection and primary_goal a string;
\* the other answers are numbers.
IsNone(a, q) ==
    CASE q = "loan_types" -> FALSE
      [] q = "primary_goal" -> a[q] = "None"
      [] OTHER -> a[q] = None

\* validate_answers passing everything
validate_answers_lenient(a) == <<TRUE, <<>> >>

\* validate_answers: <<is_valid, warnings>>
validate_answers(a) ==
    IF \E i \in 1..Len(required_questions) : IsNone(a, required_questions[i])
    THEN LET i == CHOOSE i \in 1..Len(required_questions) :
                    /\ IsNone(a, required_questions[i])
                    /\ \A j \in 1..(i - 1) : ~IsNone(a, required_questions[j])
         IN  <<FALSE, <<"Required question '" \o required_questions[i]
                          \o "' not answered">> >>
    ELSE <<TRUE,
           (IF a.expenses * 100 > a.income * 95
            THEN <<"Your expenses seem very high relative to income.">> ELSE <<>>)
           \o
           (IF a.expenses > a.income
            THEN <<"Critical Issue: Expenses exceed income.">> ELSE <<>>)>>

\* emergency_months_map, in half months
emergency_months_map == [e \in 1..6 |-> CASE e = 1 -> 0 [] e = 2 -> 1 [] e = 3 -> 4
                                           [] e = 4 -> 10 [] e = 5 -> 19 [] e = 6 -> 30]

\* Savings-rate component as <<q, r, c>>: scale * component = q + r / c
\* savings_rate_component with the wrong default for an income of zero: the
\* full component instead of none
savings_rate_component_full(monthly_income, monthly_expenses, scale) ==
    IF monthly_income > 0
    THEN IF monthly_income - monthly_expenses <= 0 THEN <<0, 0, 1>>
         ELSE IF (monthly_income - monthly_expenses) * 10 >= 3 * monthly_income
              THEN <<100 * scale, 0, 1>>
              ELSE LET m == MulDiv(monthly_income - monthly_expenses,
                                   1000 * scale, 3 * monthly_income)
                   IN  <<m[1], m[2], 3 * monthly_income>>
    ELSE <<100 * scale, 0, 1>>

savings_rate_component(monthly_income, monthly_expenses, scale) ==
    IF monthly_income > 0
    THEN IF monthly_income - monthly_expenses <= 0 THEN <<0, 0, 1>>
         ELSE IF (monthly_income - monthly_expenses) * 10 >= 3 * monthly_income
              THEN <<100 * scale, 0, 1>>
              ELSE LET m == MulDiv(monthly_income - monthly_expenses,
                                   1000 * scale, 3 * monthly_income)
                   IN  <<m[1], m[2], 3 * monthly_income>>
    ELSE <<0, 0, 1>>

calculate_financial_score(a) ==
    LET monthly_income == a.income
        monthly_expenses == a.expenses
        emergency_score == a.emergency_fund
        income_stability_score == a.income_stability
        dependents_count == a.dependents
        emergency_months == Get(emergency_months_map, emergency_score, 4)
        emergency_component == map_to_score(emergency_score, 1, 6, FALSE)
        income_stability_component == map_to_score(income_stability_score, 1, 6, TRUE)
        dependents_adjustment == Max(0, 100 - (dependents_count * 15))
        \* 0.20 * savings_rate_component, in hundredths
        sav20 == savings_rate_component(monthly_income, monthly_expenses, 20)
        sav100 == savings_rate_component(monthly_income, monthly_expenses, 100)
        fixed == 35 * emergency_component + 25 * income_stability_component
                 + 20 * dependents_adjustment
        disposable_income == Max(0, monthly_income - monthly_expenses)
        rate == IF monthly_income > 0
                THEN MulDiv(disposable_income, 10000, monthly_income)
                ELSE <<0, 0>>
    IN  [financial_score |-> RoundQR(fixed + sav20[1], sav20[2], sav20[3]),
         emergency_component |-> 100 * emergency_component,
         income_stability_component |-> 100 * income_stability_component,
         dependents_adjustment |-> 100 * dependents_adjustment,
         savings_component |-> RoundQR(sav100[1], sav100[2], sav100[3]),
         disposable_income |-> disposable_income,
         savings_rate |-> IF monthly_income > 0
                          THEN RoundQR(rate[1], rate[2], monthly_income) ELSE 0,
         monthly_income |-> monthly_income,
         monthly_expenses |-> monthly_expenses,
         emergency_months |-> emergency_months,
         income_stability |-> income_stability_score,
         dependents_count |-> dependents_count]

good_debt_types == {"home_loan", "education_loan", "business_loan"}
bad_debt_types == {"personal_loan", "credit_card", "consumer_loan", "payday_loan"}
neutral_debt_types == {"gold_loan", "property_loan"}

\* the EMI map read upside down: the heaviest EMI tier scores best
emi_percentage_map_reversed == [e \in 1..4 |-> CASE e = 1 -> 25 [] e = 2 -> 50
                                                  [] e = 3 -> 75 [] e = 4 -> 100]

emi_percentage_map == [e \in 1..4 |-> CASE e = 1 -> 100 [] e = 2 -> 75
                                         [] e = 3 -> 50 [] e = 4 -> 25]

calculate_debt_score(a) ==
    LET loan_types == a.loan_types
        emi_percentage_score == a.emi_percentage
        good_debt_count == Cardinality(loan_types \cap good_debt_types)
        bad_debt_count == Cardinality(loan_types \cap bad_debt_types)
        neutral_debt_count == Cardinality(loan_types \cap neutral_debt_types)
        loan_type_score ==
            IF loan_types = {} THEN 100
            ELSE Max(0, Min(100, 50 + (good_debt_count * 20) - (bad_debt_count * 30)
                                    + (neutral_debt_count * 5)))
        emi_score == Get(emi_percentage_map, emi_percentage_score, 50)
        \* hundredths
        debt_score == IF loan_types # {}
                      THEN 60 * loan_type_score + 40 * emi_score
                      ELSE 10000
    IN  [debt_score |-> debt_score,
         loan_type_score |-> 100 * loan_type_score,
         emi_score |-> 100 * emi_score,
         good_debt_count |-> good_debt_count,
         bad_debt_count |-> bad_debt_count,
         neutral_debt_count |-> neutral_debt_count,
         has_debt |-> Cardinality(loan_types) > 0,
         emi_percentage_category |-> emi_percentage_score]

\* the ESG adjustment added instead of subtracted
esg_adjustment_added(esg_importance) ==
    CASE esg_importance = 4 -> 20
      [] esg_importance = 3 -> 10
      [] esg_importance = 2 -> 5
      [] OTHER -> 0

esg_adjustment_of(esg_importance) ==
    CASE esg_importance = 4 -> -20
      [] esg_importance = 3 -> -10
      [] esg_importance = 2 -> -5
      [] OTHER -> 0

calculate_risk_tolerance(a) ==
    LET loss_avoidance == map_to_score(a.loss_avoidance, 1, 6, TRUE)
        emotional_reaction == map_to_score(a.market_drop_reaction, 1, 6, FALSE)
        esg_importance == a.esg_importance
        esg_adjustment == esg_adjustment_of(esg_importance)
        \* hundredths
        raw == 60 * loss_avoidance + 40 * emotional_reaction + 100 * esg_adjustment
        risk_tolerance_score == Max(0, Min(10000, raw))
        max_loss == IF loss_avoidance >= 80 THEN 10
                    ELSE IF loss_avoidance >= 60 THEN 20
                    ELSE IF loss_avoidance >= 40 THEN 30
                    ELSE 40
    IN  [risk_tolerance_score |-> risk_tolerance_score,
         loss_avoidance |-> 100 * loss_avoidance,
         emotional_reaction |-> 100 * emotional_reaction,
         esg_adjustment |-> esg_adjustment,
         max_tolerable_loss_pct |-> max_loss,
         esg_importance |-> esg_importance]

\* goal_adjustment of calculate_horizon_score
goal_adjustment_of(primary_goal, d) ==
    CASE primary_goal = "capital_preservation" ->
           LET s == Get(d, "capital_safety_importance", 2)
           IN  IF s = 1 THEN -20 ELSE IF s = 2 THEN 0 ELSE 10
      [] primary_goal = "regular_income" ->
           LET s == Get(d, "income_start_timing", 2)
           IN  IF s = 1 THEN -30 ELSE IF s = 2 THEN -10 ELSE 10
      [] primary_goal = "major_life_goal" ->
           LET s == Get(d, "goal_timeframe", 3)
           IN  IF s = 1 THEN -30 ELSE IF s = 2 THEN -10 ELSE IF s = 3 THEN 10 ELSE 20
      [] primary_goal = "retirement" ->
           LET s == Get(d, "years_to_retirement", 2)
           IN  IF s = 1 THEN -20 ELSE IF s = 2 THEN 10 ELSE 30
      [] primary_goal = "wealth_creation" ->
           LET s == Get(d, "wealth_horizon", 2)
           IN  IF s = 1 THEN -20 ELSE IF s = 2 THEN 10 ELSE 30
      [] OTHER ->
           LET s == Get(d, "not_sure_priority", 4)
           IN  IF s = 1 THEN -20 ELSE IF s = 2 THEN -10 ELSE IF s = 3 THEN 20 ELSE 0

calculate_horizon_score(a, d) ==
    LET primary_goal == a.primary_goal
        timeframe_score == a.timeframe
        liquidity_score == a.liquidity_needs
        timeframe_years == Get(TIMEFRAME_MAP, timeframe_score, 6)
        goal_adjustment == goal_adjustment_of(primary_goal, d)
        timeframe_component == map_to_score(timeframe_score, 1, 6, FALSE)
        liquidity_component == map_to_score(liquidity_score, 1, 6, TRUE)
        adjusted_timeframe == Max(0, Min(100, timeframe_component + goal_adjustment))
    IN  [horizon_score |-> 60 * adjusted_timeframe + 40 * liquidity_component,
         timeframe_component |-> 100 * timeframe_component,
         liquidity_component |-> 100 * liquidity_component,
         goal_adjustment |-> goal_adjustment,
         timeframe_years |-> timeframe_years,
         primary_goal |-> primary_goal]

calculate_knowledge_score(a) ==
    LET experience_component == map_to_score(a.experience, 1, 6, FALSE)
        knowledge_component == map_to_score(a.knowledge, 1, 6, FALSE)
    IN  [knowledge_score |-> 60 * experience_component + 40 * knowledge_component,
         experience_component |-> 100 * experience_component,
         knowledge_component |-> 100 * knowledge_component]

calculate_overall_risk_score(a, d) ==
    LET fdata == calculate_financial_score(a)
        ddata == calculate_debt_score(a)
        risk_tolerance_data == calculate_risk_tolerance(a)
        horizon_data == calculate_horizon_score(a, d)
        knowledge_data == calculate_knowledge_score(a)
        \* ten-thousandths of a point
        overall_score ==
            WEIGHTS.financial_stability * fdata.financial_score
            + WEIGHTS.debt_situation * ddata.debt_score
            + WEIGHTS.risk_tolerance * risk_tolerance_data.risk_tolerance_score
            + WEIGHTS.investment_horizon * horizon_data.horizon_score
            + WEIGHTS.knowledge_experience * knowledge_data.knowledge_score
    IN  [overall_risk_score |-> Round(overall_score, 100),
         financial_data |-> fdata,
         debt_data |-> ddata,
         risk_tolerance_data |-> risk_tolerance_data,
         horizon_data |-> horizon_data,
         knowledge_data |-> knowledge_data,
         weights_used |-> WEIGHTS]

\* the thresholds taken as strict upper limits
get_risk_category_strict(overall_risk_score) ==
    IF overall_risk_score < 2000 THEN "VERY LOW RISK"
    ELSE IF overall_risk_score < 4000 THEN "LOW RISK"
    ELSE IF overall_risk_score < 6000 THEN "MEDIUM RISK"
    ELSE IF overall_risk_score < 8000 THEN "HIGH RISK"
    ELSE "VERY HIGH RISK"

\* Risk category of an overall score given in hundredths of a point
get_risk_category(overall_risk_score) ==
    IF overall_risk_score <= 2000 THEN "VERY LOW RISK"
    ELSE IF overall_risk_score <= 4000 THEN "LOW RISK"
    ELSE IF overall_risk_score <= 6000 THEN "MEDIUM RISK"
    ELSE IF overall_risk_score <= 8000 THEN "HIGH RISK"
    ELSE "VERY HIGH RISK"

----------------------------------------------------------------------------
(* RiskCalculator: portfolio allocation *)

Buckets == <<"Large_Cap", "Mid_Cap", "Small_Cap", "Growth",
             "Inflation_Protection", "Fixed_Income">>

InflationPreferences == {"growth", "balanced", "protection"}

\* inflation_adjustment, in tenths (default 0.8)
inflation_adjustment_of(inflation_preference_) ==
    CASE inflation_preference_ = "growth" -> 10
      [] inflation_preference_ = "balanced" -> 8
      [] inflation_preference_ = "protection" -> 6
      [] OTHER -> 8

\* the reserve with the two strategies exchanged
inflation_protection_pct_swapped(inflation_preference_) ==
    CASE inflation_preference_ = "protection" -> 10
      [] inflation_preference_ = "balanced" -> 20
      [] OTHER -> 0

inflation_protection_pct_of(inflation_preference_) ==
    CASE inflation_preference_ = "protection" -> 20
      [] inflation_preference_ = "balanced" -> 10
      [] OTHER -> 0

\* Split of equity over Large/Mid/Small/Growth, in twentieths
equity_split(overall_risk_score) ==
    IF overall_risk_score <= 2000 THEN <<18, 2, 0, 0>>
    ELSE IF overall_risk_score <= 4000 THEN <<14, 6, 0, 0>>
    ELSE IF overall_risk_score <= 6000 THEN <<10, 6, 2, 2>>
    ELSE IF overall_risk_score <= 8000 THEN <<6, 6, 4, 4>>
    ELSE <<2, 5, 6, 7>>

\* Denominator of the unrounded bucket percentages: 25000 (risk multiplier
\* over hundredths of a point) * 10 (inflation adjustment) * 20 (split)
AllocDen == 5000000

\* The unrounded buckets, as numerators over AllocDen
raw_allocation(overall_risk_score, a, inflation_preference_) ==
    LET age_score == a.age_group
        base_equity_pct == Get(AGE_EQUITY_MAP, age_score, 65)
        \* base * (0.6 + 0.4 * score / 100) * adjustment, over AllocDen / 20
        adjusted == base_equity_pct * (15000 + overall_risk_score)
                    * inflation_adjustment_of(inflation_preference_)
        ED == AllocDen \div 20
        inflation_protection_pct == inflation_protection_pct_of(inflation_preference_)
        inflation_adjusted_equity ==
            IF inflation_protection_pct > 0
            THEN Max(0, adjusted - inflation_protection_pct * ED)
            ELSE adjusted
        split == equity_split(overall_risk_score)
    IN  [b \in {Buckets[i] : i \in 1..6} |->
          CASE b = "Large_Cap" -> inflation_adjusted_equity * split[1]
            [] b = "Mid_Cap" -> inflation_adjusted_equity * split[2]
            [] b = "Small_Cap" -> inflation_adjusted_equity * split[3]
            [] b = "Growth" -> inflation_adjusted_equity * split[4]
            [] b = "Inflation_Protection" -> inflation_protection_pct * AllocDen
            [] b = "Fixed_Income" ->
                 (100 * ED - inflation_adjusted_equity - inflation_protection_pct * ED) * 20]

RECURSIVE SumUpTo(_, _)
SumUpTo(alloc, n) == IF n = 0 THEN 0 ELSE alloc[Buckets[n]] + SumUpTo(alloc, n - 1)

\* sum(allocation.values())
SumAlloc(alloc) == SumUpTo(alloc, 6)

\* Normalize and round to one decimal: tenths of a percent
normalize_and_round(raw) ==
    LET total == SumAlloc(raw)
    IN  IF Abs(total - 100 * AllocDen) * 100 > AllocDen
        THEN [b \in DOMAIN raw |->
                LET m == MulDiv(raw[b], 1000, total) IN RoundQR(m[1], m[2], total)]
        ELSE [b \in DOMAIN raw |-> Round(raw[b], AllocDen \div 10)]

\* min(allocation, key=allocation.get): the first bucket, in insertion order,
\* that holds the smallest value
smallest_key(alloc) ==
    LET i == CHOOSE i \in 1..6 :
               /\ \A j \in 1..6 : alloc[Buckets[j]] >= alloc[Buckets[i]]
               /\ \A j \in 1..(i - 1) : alloc[Buckets[j]] > alloc[Buckets[i]]
    IN  Buckets[i]

\* max(allocation, key=allocation.get): the first bucket, in insertion order,
\* that holds the largest value
largest_key(alloc) ==
    LET i == CHOOSE i \in 1..6 :
               /\ \A j \in 1..6 : alloc[Buckets[j]] <= alloc[Buckets[i]]
               /\ \A j \in 1..(i - 1) : alloc[Buckets[j]] < alloc[Buckets[i]]
    IN  Buckets[i]

ensure_exact_100_skipped(alloc) == alloc

\* Ensure exact 100%: the residual goes to the largest bucket
ensure_exact_100(alloc) ==
    LET rounded_sum == SumAlloc(alloc)
    IN  IF Abs(rounded_sum - 1000) > 0
        THEN [alloc EXCEPT ![largest_key(alloc)] = @ + (1000 - rounded_sum)]
        ELSE alloc

determine_portfolio_allocation(overall_risk_score, a, inflation_preference_) ==
    ensure_exact_100(
        normalize_and_round(
            raw_allocation(overall_risk_score, a, inflation_preference_)))

----------------------------------------------------------------------------
(* RiskCalculator: suitability and investment sizing *)

blocking_issues_without_liquidity(a, fdata) ==
    LET emergency_months == fdata.emergency_months
        income_stability == a.income_stability
        ddata == calculate_debt_score(a)
    IN  (IF emergency_months = 0 THEN <<"No emergency savings">> ELSE <<>>)
        \o (IF income_stability = 4 THEN <<"No current income">> ELSE <<>>)
        \o (IF ddata.emi_percentage_category = 4
            THEN <<"Debt EMI exceeds 60% of income">> ELSE <<>>)

blocking_issues_of(a, fdata) ==
    LET emergency_months == fdata.emergency_months
        income_stability == a.income_stability
        ddata == calculate_debt_score(a)
        liquidity_score == a.liquidity_needs
    IN  (IF emergency_months = 0 THEN <<"No emergency savings">> ELSE <<>>)
        \o (IF income_stability = 4 THEN <<"No current income">> ELSE <<>>)
        \o (IF ddata.emi_percentage_category = 4
            THEN <<"Debt EMI exceeds 60% of income">> ELSE <<>>)
        \o (IF liquidity_score <= 1
            THEN <<"Very likely to need money within 1 year">> ELSE <<>>)

suitability_warnings_of(a, fdata) ==
    LET emergency_months == fdata.emergency_months
        income_stability == a.income_stability
        ddata == calculate_debt_score(a)
        liquidity_score == a.liquidity_needs
    IN  (IF emergency_months < 6
         THEN <<"Emergency fund below 3 months (recommended: 3-6 months)">> ELSE <<>>)
        \o (IF income_stability >= 3 THEN <<"Income stability concerns">> ELSE <<>>)
        \o (IF ddata.bad_debt_count > 0 THEN <<"Has bad debt">> ELSE <<>>)
        \o (IF liquidity_score <= 2
            THEN <<"May need money within 1-2 years">> ELSE <<>>)

check_investment_suitability(a, fdata) ==
    LET blocking_issues == blocking_issues_of(a, fdata)
        warnings == suitability_warnings_of(a, fdata)
    IN  [suitability |-> IF blocking_issues # <<>> THEN "NOT SUITABLE"
                         ELSE IF warnings # <<>> THEN "CAUTION ADVISED"
                         ELSE "SUITABLE",
         blocking_issues |-> blocking_issues,
         warnings |-> warnings]

\* Money inside calculate_safe_investment is held in 1/7200 of a rupee, which
\* represents exactly the percentages of disposable income and the quotients
\* ef_gap_amount / build_timeline for the timelines 6, 12, 16 and 18 that
\* emergency_months_map and the two targets produce.
MoneyDen == 7200

\* Denominator of investment_percentage: fh_multiplier (hundredths) *
\* (0.5 + 0.5 * risk_tolerance / 100) (over 20000) * two multipliers (tenths)
PctDen == 200000000

\* The plan returned in the NOT SUITABLE branch (amounts in paise)
blocked_plan(fdata, suitability) ==
    [safe_monthly_investment |-> 0,
     annual_investment |-> 0,
     monthly_ef_saving |-> fdata.disposable_income * 50,
     monthly_debt_payment |-> fdata.disposable_income * 30,
     ef_gap_amount |-> Max(0, 12 - fdata.emergency_months) * fdata.monthly_expenses * 50,
     investment_percentage |-> 0,
     investment_confidence |-> "Very Low",
     suitability |-> suitability,
     recommendation_priority |-> "EMERGENCY_FUND_DEBT"]

debt_priority_percentage_of(ddata) ==
    IF ddata.has_debt
    THEN IF ddata.emi_percentage_category >= 3 THEN 20
         ELSE IF ddata.bad_debt_count > 0 THEN 15
         ELSE 10
    ELSE 0

\* a stability multiplier that rewards unstable income
stability_multiplier_rising(income_stability) ==
    CASE income_stability = 1 -> 10
      [] income_stability = 2 -> 12
      [] income_stability = 3 -> 14
      [] OTHER -> 0

stability_multiplier_of(income_stability) ==
    CASE income_stability = 1 -> 10
      [] income_stability = 2 -> 8
      [] income_stability = 3 -> 6
      [] OTHER -> 0

fh_multiplier_of(financial_score) ==
    IF financial_score < 4000 THEN 0
    ELSE IF financial_score < 6000 THEN 15
    ELSE IF financial_score < 8000 THEN 25
    ELSE 35

apply_minimum_threshold_none(q, r, c) == <<q, r, c>>

\* The threshold step: an amount (whole paise q, remainder r over c) below
\* MINIMUM_INVESTMENT_THRESHOLD rupees becomes 0
apply_minimum_threshold(q, r, c) ==
    IF q < MINIMUM_INVESTMENT_THRESHOLD * 100 THEN <<0, 0, 1>> ELSE <<q, r, c>>

\* min(available_after_priorities * 0.5, ef_gap_amount / build_timeline),
\* in 1 / MoneyDen rupees; ef_gap_months in half months
ef_saving_max(available_after_priorities, ef_gap_months, monthly_expenses, build_timeline) ==
    Max(available_after_priorities \div 2,
        ef_gap_months * monthly_expenses * ((MoneyDen \div 2) \div build_timeline))

ef_saving_of(available_after_priorities, ef_gap_months, monthly_expenses, build_timeline) ==
    Min(available_after_priorities \div 2,
        ef_gap_months * monthly_expenses * ((MoneyDen \div 2) \div build_timeline))

\* The plan of the sized branch (amounts in paise)
sized_plan(a, fdata, rdata, suitability) ==
    LET monthly_expenses == fdata.monthly_expenses
        disposable_income == fdata.disposable_income
        financial_score == fdata.financial_score
        emergency_months == fdata.emergency_months
        income_stability == a.income_stability
        dependents_count == fdata.dependents_count
        \* half months
        target_emergency_months == IF income_stability <= 2 THEN 12 ELSE 18
        ef_gap_months == Max(0, target_emergency_months - emergency_months)
        \* paise
        ef_gap_amount == ef_gap_months * monthly_expenses * 50
        ddata == calculate_debt_score(a)
        debt_priority_percentage == debt_priority_percentage_of(ddata)
        \* tenths
        dependents_multiplier == Max(5, 10 - dependents_count)
        stability_multiplier == stability_multiplier_of(income_stability)
        fh_multiplier == fh_multiplier_of(financial_score)
        risk_tolerance == rdata.risk_tolerance_data.risk_tolerance_score
        \* investment_percentage over PctDen
        investment_percentage == fh_multiplier * (10000 + risk_tolerance)
                                 * stability_multiplier * dependents_multiplier
        \* 1 / MoneyDen rupees
        available_after_priorities ==
            Max(0, disposable_income * (100 - debt_priority_percentage)
                   * (MoneyDen \div 100))
        build_timeline == Min(18, Max(6, (ef_gap_months * 3) \div 2))
        monthly_ef_saving ==
            IF ef_gap_amount > 0 /\ disposable_income > 0
            THEN ef_saving_of(available_after_priorities, ef_gap_months,
                              monthly_expenses, build_timeline)
            ELSE 0
        available_for_investment ==
            Max(0, available_after_priorities - monthly_ef_saving)
        \* min(x * investment_percentage, x * 0.3)
        rate == Min(investment_percentage, 3 * (PctDen \div 10))
        g == GCD(rate, PctDen)
        c == (MoneyDen \div 100) * (PctDen \div g)
        m == MulDiv(available_for_investment, rate \div g, c)
        safe == apply_minimum_threshold(m[1], m[2], c)
        year == IF safe[1] = 0 /\ safe[2] = 0 THEN <<0, 0>>
                ELSE MulDiv(available_for_investment, 12 * (rate \div g), c)
    IN  [safe_monthly_investment |-> RoundQR(safe[1], safe[2], safe[3]),
         annual_investment |-> RoundQR(year[1], year[2], c),
         monthly_ef_saving |-> Round(monthly_ef_saving, MoneyDen \div 100),
         monthly_debt_payment |-> disposable_income * debt_priority_percentage,
         ef_gap_amount |-> ef_gap_amount,
         ef_build_timeline |-> IF ef_gap_amount > 0 THEN 12 ELSE 0,
         investment_percentage |-> Round(investment_percentage, PctDen \div 10000),
         investment_confidence |->
             IF safe[1] = 0 /\ safe[2] = 0 THEN "Very Low"
             ELSE IF safe[1] < disposable_income * 5 THEN "Low"
             ELSE IF safe[1] < disposable_income * 10 THEN "Medium"
             ELSE IF safe[1] < disposable_income * 20 THEN "High"
             ELSE "Very High",
         available_for_investment |-> Round(available_for_investment, MoneyDen \div 100),
         suitability |-> suitability,
         recommendation_priority |->
             IF ef_gap_amount > 0 /\ emergency_months < 6 THEN "EMERGENCY_FUND"
             ELSE IF disposable_income * debt_priority_percentage > 0
                  THEN "DEBT_REDUCTION"
             ELSE "INVESTMENT",
         dependents_multiplier |-> 10 * dependents_multiplier,
         stability_multiplier |-> 10 * stability_multiplier]

calculate_safe_investment(a, fdata, rdata) ==
    LET suitability == check_investment_suitability(a, fdata)
    IN  IF suitability.suitability = "NOT SUITABLE"
        THEN blocked_plan(fdata, suitability)
        ELSE sized_plan(a, fdata, rdata, suitability)

----------------------------------------------------------------------------
(* RiskCalculator: stock recommendations *)

\* STOCKS_DB: per bucket, the stocks in table order, with the fields the
\* selection reads
Stock(symbol, esg_rating, growth_focus, inflation_protection) ==
    [symbol |-> symbol, esg_rating |-> esg_rating, growth_focus |-> growth_focus,
     inflation_protection |-> inflation_protection]

STOCKS_DB ==
    [b \in {"Large_Cap", "Mid_Cap", "Small_Cap", "Growth", "Inflation_Protection"} |->
      CASE b = "Large_Cap" ->
             <<Stock("RELIANCE", "Medium", "High", "Medium"),
               Stock("TCS", "High", "Medium", "Medium"),
               Stock("HDFCBANK", "Medium", "High", "Low"),
               Stock("INFY", "High", "Medium", "Medium"),
               Stock("ITC", "High", "Medium", "High")>>
        [] b = "Mid_Cap" ->
             <<Stock("TITAN", "Medium", "High", "Medium"),
               Stock("ASIANPAINT", "Medium", "High", "Medium"),
               Stock("BAJFINANCE", "Low", "High", "Low"),
               Stock("DABUR", "High", "Medium", "High")>>
        [] b = "Small_Cap" ->
             <<Stock("TATAELXSI", "High", "High", "Medium"),
               Stock("LAURUSLABS", "Medium", "High", "Medium")>>
        [] b = "Growth" ->
             <<Stock("DMART", "Medium", "High", "High"),
               Stock("BAJAJFINSV", "Medium", "High", "Low"),
               Stock("TECHM", "High", "Medium", "Medium")>>
        [] b = "Inflation_Protection" ->
             <<Stock("NESTLEIND", "High", "Medium", "Excellent"),
               Stock("HINDUNILVR", "High", "Medium", "Excellent"),
               Stock("BRITANNIA", "High", "Medium", "High")>>]

\* base_recommendations[risk_category]["strategy"]; MEDIUM RISK for an
\* unknown category.  The table is built anew by every call.
base_strategy(category) ==
    CASE category = "VERY LOW RISK" -> "Conservative Income"
      [] category = "LOW RISK" -> "Balanced Growth"
      [] category = "HIGH RISK" -> "Aggressive Growth"
      [] category = "VERY HIGH RISK" -> "Speculative Growth"
      [] OTHER -> "Growth Oriented"

strategy_suffix(inflation_preference_) ==
    CASE inflation_preference_ = "growth" -> " (Growth Focused)"
      [] inflation_preference_ = "protection" -> " (Inflation Protected)"
      [] OTHER -> " (Balanced)"

\* The first n elements of a sequence: seq[:n]
Take(seq, n) == SubSeq(seq, 1, Min(n, Len(seq)))

\* Sort keys of filter_stocks_by_preferences
protection_rank(stock) ==
    CASE stock.inflation_protection = "Excellent" -> 3
      [] stock.inflation_protection = "Good" -> 2
      [] stock.inflation_protection = "Medium" -> 1
      [] OTHER -> 0

growth_rank(stock) ==
    CASE stock.growth_focus = "High" -> 3
      [] stock.growth_focus = "Medium" -> 2
      [] stock.growth_focus = "Low" -> 1
      [] OTHER -> 0

\* list.sort(key=..., reverse=True): descending by rank, equal ranks keep
\* their order
SortByProtection(seq) ==
    LET OfRank(r) == SelectSeq(seq, LAMBDA x : protection_rank(x) = r)
    IN  OfRank(3) \o OfRank(2) \o OfRank(1) \o OfRank(0)

SortByGrowth(seq) ==
    LET OfRank(r) == SelectSeq(seq, LAMBDA x : growth_rank(x) = r)
    IN  OfRank(3) \o OfRank(2) \o OfRank(1) \o OfRank(0)

\* filter_stocks_by_preferences without the ESG filter
filter_stocks_ignoring_esg(stock_list, category_allocation, esg_pref, inflation_pref) ==
    IF category_allocation <= 0 THEN <<>>
    ELSE LET sorted == CASE inflation_pref = "protection" ->
                               SortByProtection(stock_list)
                         [] inflation_pref = "growth" ->
                               SortByGrowth(stock_list)
                         [] OTHER -> stock_list
             max_stocks == Max(1, category_allocation \div 100)
         IN  Take(sorted, max_stocks)

\* category_allocation is in tenths of a percent
filter_stocks_by_preferences(stock_list, category_allocation, esg_pref, inflation_pref) ==
    IF category_allocation <= 0 THEN <<>>
    ELSE LET esg_ok(stock) ==
                 IF esg_pref >= 3
                 THEN /\ stock.esg_rating # "Low"
                      /\ (esg_pref = 4 => stock.esg_rating = "High")
                 ELSE TRUE
             filtered == SelectSeq(stock_list, esg_ok)
             sorted == CASE inflation_pref = "protection" ->
                               SortByProtection(filtered)
                         [] inflation_pref = "growth" ->
                               SortByGrowth(filtered)
                         [] OTHER -> filtered
             max_stocks == Max(1, category_allocation \div 100)
         IN  Take(sorted, max_stocks)

RECURSIVE selected_stocks_upto(_, _, _, _)
selected_stocks_upto(n, alloc, esg_importance, inflation_preference_) ==
    IF n = 0 THEN <<>>
    ELSE selected_stocks_upto(n - 1, alloc, esg_importance, inflation_preference_)
         \o (IF alloc[Buckets[n]] > 0 /\ Buckets[n] \in DOMAIN STOCKS_DB
             THEN Take(filter_stocks_by_preferences(
                           STOCKS_DB[Buckets[n]], alloc[Buckets[n]],
                           esg_importance, inflation_preference_), 2)
             ELSE <<>>)

\* ETFS_DB after a call: etfs = etfs + ["GOLDBEES"] builds a new list and
\* leaves the table as it was
etfs_db_appended(db, category, inflation_preference_) ==
    IF inflation_preference_ = "protection" /\ category \in DOMAIN db
    THEN [db EXCEPT ![category] = Append(@, "GOLDBEES")]
    ELSE db

etfs_db_after_call(db, category, inflation_preference_) == db

\* get_stock_recommendations, reading the ETF table db
get_stock_recommendations(db, category, alloc, esg_importance, inflation_preference_) ==
    LET etfs == Get(db, category, <<>>)
    IN  [strategy |-> base_strategy(category) \o strategy_suffix(inflation_preference_),
         stocks |-> Take(selected_stocks_upto(6, alloc, esg_importance,
                                              inflation_preference_), 6),
         etfs |-> IF inflation_preference_ = "protection"
                  THEN Append(etfs, "GOLDBEES") ELSE etfs,
         esg_filter_applied |-> esg_importance >= 2,
         inflation_preference |-> inflation_preference_]

----------------------------------------------------------------------------
(* Session state *)

Tabs == <<"Welcome", "Assessment", "Financial Health", "Debt Analysis",
          "Risk Profile", "Inflation Education", "Recommendations",
          "Action Plan", "Data & Export">>

\* The 'answers' default of init_session_state
InitialAnswers ==
    [income |-> None, expenses |-> None, emergency_fund |-> None,
     income_stability |-> None, dependents |-> None, loan_types |-> {},
     emi_percentage |-> None, primary_goal |-> "None", timeframe |-> None,
     loss_avoidance |-> None, market_drop_reaction |-> None,
     experience |-> None, knowledge |-> None, liquidity_needs |-> None,
     age_group |-> None, esg_importance |-> None, esg_areas |-> {}]

\* What the widgets of the assessment form return before anything is
\* submitted: their value= / index= defaults
FormDefaults ==
    [income |-> 50000, expenses |-> 35000, emergency_fund |-> 3,
     income_stability |-> 2, dependents |-> 1, loan_types |-> {},
     emi_percentage |-> 1, primary_goal |-> "not_sure", timeframe |-> 3,
     loss_avoidance |-> 2, market_drop_reaction |-> 3,
     experience |-> 2, knowledge |-> 2, liquidity_needs |-> 4,
     age_group |-> 3, esg_importance |-> 1, esg_areas |-> {},
     capital_safety_importance |-> 1]

\* init_session_state on an empty session
init_session_state ==
    /\ answers = InitialAnswers
    /\ dependent_answers = <<>>
    /\ risk_data = NoneRec
    /\ risk_category = "None"
    /\ financial_data = NoneRec
    /\ debt_data = NoneRec
    /\ safe_investment = NoneRec
    /\ assessment_complete = FALSE
    /\ allocation = NoneRec
    /\ recommendations = NoneRec
    /\ assessment_id = None
    /\ validation_warnings = <<>>
    /\ inflation_preference = "None"
    /\ show_inflation_education = FALSE

SessionIdle ==
    /\ current_tab = "Welcome"
    /\ init_session_state
    /\ form = NoneRec
    /\ clock = 0
    /\ csv_rows = 0

NoCall ==
    /\ fn = "none"
    /\ ret = NoneRec
    /\ prev = NoneRec

----------------------------------------------------------------------------
(* Direct calls of determine_portfolio_allocation *)

\* Overall scores are taken every ScoreStep hundredths of a point, together
\* with the category thresholds and their neighbours
ScoreStep == 13

Scores == {s \in 0..10000 : s % ScoreStep = 0}
          \cup {2000, 2001, 4000, 4001, 6000, 6001, 8000, 8001, 10000}

InitAlloc ==
    /\ SessionIdle
    /\ NoCall
    /\ etfs_db = ETFS_DB
    /\ fp_tie \in TieRules
    /\ args \in [overall_risk_score : Scores,
                 answers : [age_group : 1..6],
                 inflation_preference : InflationPreferences]

CallDeterminePortfolioAllocation ==
    /\ fn = "none"
    /\ fn' = "determine_portfolio_allocation"
    /\ ret' = determine_portfolio_allocation(args.overall_risk_score, args.answers,
                                             args.inflation_preference)
    /\ prev' = NoneRec
    /\ UNCHANGED <<session_vars, etfs_db, args, fp_tie>>

NextAlloc == CallDeterminePortfolioAllocation

SpecAlloc == InitAlloc /\ [][NextAlloc]_vars

\* C1: for every overall risk score in 0..100, every age group 1..6 and every
\* inflation preference, the percentages returned by
\* determine_portfolio_allocation sum to exactly 100.0
C1_AllocationSumsTo100 ==
    fn = "determine_portfolio_allocation" => SumAlloc(ret) = 1000

\* a call whose rounded buckets did not sum to 100.0 before the correction
C1_Witness ==
    /\ fn = "determine_portfolio_allocation"
    /\ SumAlloc(normalize_and_round(
           raw_allocation(args.overall_risk_score, args.answers,
                          args.inflation_preference))) # 1000
    /\ SumAlloc(ret) = 1000

----------------------------------------------------------------------------
(* Direct calls of the scoring and sizing functions on complete answer sets *)

IncomeStep == 40000
MaxIncomeSteps == 2
ExpenseStep == 30000
MaxExpenseSteps == 3

Incomes == {IncomeStep * k : k \in 1..MaxIncomeSteps}
Expenses == {ExpenseStep * k : k \in 0..MaxExpenseSteps}

\* A complete answer set: the answers the form holds before the user
\* changes anything
BaseAnswers ==
    [q \in DOMAIN InitialAnswers |-> FormDefaults[q]]

LoanChoices == {{}, {"home_loan"}, {"personal_loan", "credit_card"}}

\* <<loss_avoidance, market_drop_reaction, esg_importance>>
ToleranceChoices == {<<1, 5, 1>>, <<4, 2, 3>>}

InvestAnswers ==
    {[BaseAnswers EXCEPT !.income = i, !.expenses = e, !.emergency_fund = ef,
                         !.income_stability = st, !.dependents = dp,
                         !.loan_types = ln, !.emi_percentage = em,
                         !.liquidity_needs = lq, !.loss_avoidance = tc[1],
                         !.market_drop_reaction = tc[2],
                         !.esg_importance = tc[3]] :
        i \in Incomes, e \in Expenses, ef \in 1..6, st \in 1..4, dp \in 0..4,
        ln \in LoanChoices, em \in {1, 3, 4}, lq \in {1, 4},
        tc \in ToleranceChoices}

InitInvest ==
    /\ SessionIdle
    /\ NoCall
    /\ etfs_db = ETFS_DB
    /\ fp_tie \in TieRules
    /\ args \in [answers : InvestAnswers, dependent_answers : {<<>>}]

\* calculate_safe_investment as apply_inflation_preference calls it: with the
\* financial_data and risk_data computed from the same answers
CallCalculateSafeInvestment ==
    /\ fn = "none"
    /\ fn' = "calculate_safe_investment"
    /\ ret' = calculate_safe_investment(
                  args.answers,
                  calculate_financial_score(args.answers),
                  calculate_overall_risk_score(args.answers, args.dependent_answers))
    /\ prev' = NoneRec
    /\ UNCHANGED <<session_vars, etfs_db, args, fp_tie>>

NextInvest == CallCalculateSafeInvestment

SpecInvest == InitInvest /\ [][NextInvest]_vars

\* disposable income of the answers of the call, in paise
ArgDisposable == Max(0, args.answers.income - args.answers.expenses) * 100

\* C2: safe_monthly_investment is never negative and is either 0 or at least
\* MINIMUM_INVESTMENT_THRESHOLD (500 rupees), in the blocked and in the sized
\* branch
C2_SafeInvestmentZeroOrAboveMinimum ==
    fn = "calculate_safe_investment" =>
        /\ ret.safe_monthly_investment >= 0
        /\ \/ ret.safe_monthly_investment = 0
           \/ ret.safe_monthly_investment >= MINIMUM_INVESTMENT_THRESHOLD * 100

\* the sized branch had money to invest at a positive rate, and the amount
\* was below the threshold
C2_Witness ==
    /\ fn = "calculate_safe_investment"
    /\ ret.suitability.suitability # "NOT SUITABLE"
    /\ ret.available_for_investment > 0
    /\ ret.investment_percentage > 0
    /\ ret.safe_monthly_investment = 0

\* the four blocking conditions, read off the answers
ArgBlocked ==
    \/ args.answers.emergency_fund = 1
    \/ args.answers.income_stability = 4
    \/ args.answers.emi_percentage = 4
    \/ args.answers.liquidity_needs = 1

\* C4: under a blocking condition the plan invests nothing and gives 50% of
\* disposable income to the emergency fund and 30% to debt; a positive
\* safe_monthly_investment is returned only when no blocking condition holds
C4_BlockedPlanInvestsNothing ==
    fn = "calculate_safe_investment" =>
        /\ ArgBlocked =>
             /\ ret.safe_monthly_investment = 0
             /\ ret.annual_investment = 0
             /\ ret.monthly_ef_saving * 10 = ArgDisposable * 5
             /\ ret.monthly_debt_payment * 10 = ArgDisposable * 3
        /\ ret.safe_monthly_investment > 0 => ~ArgBlocked

\* blocked only by the liquidity answer, with income to redirect
C4_Witness ==
    /\ fn = "calculate_safe_investment"
    /\ args.answers.liquidity_needs = 1
    /\ args.answers.emergency_fund > 1
    /\ args.answers.income_stability < 4
    /\ args.answers.emi_percentage < 4
    /\ ArgDisposable > 0
    /\ ret.safe_monthly_investment = 0
    /\ ret.monthly_ef_saving > 0

\* C5: safe_monthly_investment + monthly_ef_saving + monthly_debt_payment
\* never exceeds disposable income
C5_PlanWithinDisposableIncome ==
    fn = "calculate_safe_investment" =>
        ret.safe_monthly_investment + ret.monthly_ef_saving
        + ret.monthly_debt_payment <= ArgDisposable

\* a sized plan that invests, saves for the emergency fund and pays debt
C5_Witness ==
    /\ fn = "calculate_safe_investment"
    /\ ret.suitability.suitability # "NOT SUITABLE"
    /\ ret.safe_monthly_investment > 0
    /\ ret.monthly_ef_saving > 0
    /\ ret.monthly_debt_payment > 0

----------------------------------------------------------------------------
(* Direct calls of get_risk_category *)

InitCategory ==
    /\ SessionIdle
    /\ NoCall
    /\ etfs_db = ETFS_DB
    /\ fp_tie \in TieRules
    /\ args \in [overall_risk_score : Scores]

CallGetRiskCategory ==
    /\ fn = "none"
    /\ fn' = "get_risk_category"
    /\ ret' = [risk_category |-> get_risk_category(args.overall_risk_score)]
    /\ prev' = NoneRec
    /\ UNCHANGED <<session_vars, etfs_db, args, fp_tie>>

NextCategory == CallGetRiskCategory

SpecCategory == InitCategory /\ [][NextCategory]_vars

\* C6: get_risk_category is a total threshold lookup on the 100-point scale:
\* score <= 20 gives VERY LOW RISK, <= 40 LOW RISK, <= 60 MEDIUM RISK,
\* <= 80 HIGH RISK, otherwise VERY HIGH RISK; a higher score never yields a
\* lower category
C6_CategoryThresholdsMonotone ==
    fn = "get_risk_category" =>
        LET s == args.overall_risk_score
        IN  /\ CategoryIndex(ret.risk_category) \in 1..5
            /\ (s <= 2000) <=> (ret.risk_category = "VERY LOW RISK")
            /\ (2000 < s /\ s <= 4000) <=> (ret.risk_category = "LOW RISK")
            /\ (4000 < s /\ s <= 6000) <=> (ret.risk_category = "MEDIUM RISK")
            /\ (6000 < s /\ s <= 8000) <=> (ret.risk_category = "HIGH RISK")
            /\ (8000 < s) <=> (ret.risk_category = "VERY HIGH RISK")
            /\ \A t \in Scores :
                 t >= s => CategoryIndex(get_risk_category(t))
                             >= CategoryIndex(ret.risk_category)

\* a score exactly on a threshold stays in the lower category
C6_Witness ==
    /\ fn = "get_risk_category"
    /\ args.overall_risk_score = 6000
    /\ ret.risk_category = "MEDIUM RISK"

----------------------------------------------------------------------------
(* Direct calls of calculate_financial_score *)

\* incomes of the direct calls: none at all, and the sizing incomes
FinancialIncomes == {0} \cup Incomes

FinancialAnswers ==
    {[BaseAnswers EXCEPT !.income = i, !.expenses = e, !.emergency_fund = ef,
                         !.income_stability = st, !.dependents = dp] :
        i \in FinancialIncomes, e \in Expenses, ef \in 1..6, st \in 1..4,
        dp \in 0..4}

InitFinancial ==
    /\ SessionIdle
    /\ NoCall
    /\ etfs_db = ETFS_DB
    /\ fp_tie \in TieRules
    /\ args \in [answers : FinancialAnswers]

CallCalculateFinancialScore ==
    /\ fn = "none"
    /\ fn' = "calculate_financial_score"
    /\ ret' = calculate_financial_score(args.answers)
    /\ prev' = NoneRec
    /\ UNCHANGED <<session_vars, etfs_db, args, fp_tie>>

NextFinancial == CallCalculateFinancialScore

SpecFinancial == InitFinancial /\ [][NextFinancial]_vars

\* C8: with all other answers fixed, a higher emergency_fund tier (1..6)
\* never gives a lower financial_score
C8_EmergencyFundMonotone ==
    fn = "calculate_financial_score" =>
        \A tier \in 1..6 :
            tier >= args.answers.emergency_fund =>
                calculate_financial_score(
                    [args.answers EXCEPT !.emergency_fund = tier]).financial_score
                >= ret.financial_score

\* a call with a tier that can still be raised, whose savings-rate component
\* is a fraction, and for which the top tier scores strictly higher
C8_Witness ==
    /\ fn = "calculate_financial_score"
    /\ args.answers.emergency_fund = 2
    /\ ret.savings_component > 0
    /\ ret.savings_component < 10000
    /\ calculate_financial_score(
           [args.answers EXCEPT !.emergency_fund = 6]).financial_score
       > ret.financial_score

----------------------------------------------------------------------------
(* Repeated evaluation of one set of inputs *)

MaxEvaluations == 3

IdemAnswers ==
    {[BaseAnswers EXCEPT !.emergency_fund = ef, !.loss_avoidance = tc[1],
                         !.market_drop_reaction = tc[2],
                         !.esg_importance = tc[3], !.age_group = ag] :
        ef \in {1, 3, 6}, tc \in ToleranceChoices, ag \in {1, 3, 6}}

\* Everything one evaluation returns: calculate_overall_risk_score,
\* get_risk_category, determine_portfolio_allocation,
\* calculate_safe_investment and get_stock_recommendations, called as
\* calculate_results and apply_inflation_preference call them
evaluate(db, a, d, inflation_pref) ==
    LET rdata == calculate_overall_risk_score(a, d)
        category == get_risk_category(rdata.overall_risk_score)
        alloc == determine_portfolio_allocation(rdata.overall_risk_score, a,
                                                inflation_pref)
    IN  [risk_data |-> rdata,
         risk_category |-> category,
         allocation |-> alloc,
         safe_investment |-> calculate_safe_investment(a, rdata.financial_data, rdata),
         recommendations |-> get_stock_recommendations(
                                 db, category, alloc,
                                 Get(a, "esg_importance", 1), inflation_pref)]

InitIdem ==
    /\ SessionIdle
    /\ NoCall
    /\ etfs_db = ETFS_DB
    /\ fp_tie \in TieRules
    /\ args \in [answers : IdemAnswers,
                 dependent_answers : {<<>>},
                 inflation_preference : InflationPreferences]

\* One more evaluation of the same inputs; clock counts the evaluations
Evaluate ==
    /\ clock < MaxEvaluations
    /\ clock' = clock + 1
    /\ fn' = "evaluate"
    /\ prev' = ret
    /\ ret' = evaluate(etfs_db, args.answers, args.dependent_answers,
                       args.inflation_preference)
    /\ etfs_db' = etfs_db_after_call(
                      etfs_db,
                      get_risk_category(
                          calculate_overall_risk_score(
                              args.answers,
                              args.dependent_answers).overall_risk_score),
                      args.inflation_preference)
    /\ UNCHANGED <<current_tab, answers, dependent_answers, risk_data,
                   risk_category, financial_data, debt_data, safe_investment,
                   assessment_complete, allocation, recommendations,
                   assessment_id, validation_warnings, inflation_preference,
                   show_inflation_education, form, csv_rows, args, fp_tie>>

NextIdem == Evaluate

SpecIdem == InitIdem /\ [][NextIdem]_vars

----------------------------------------------------------------------------
(* The Streamlit session: one action per click, each followed by the script
   run (and the rerun, where the handler asks for one) that renders the
   resulting tab *)

MaxClock == 1
MaxCsvRows == 1

TabIndex(tab) == CHOOSE i \in 1..Len(Tabs) : Tabs[i] = tab

\* What the widgets of the assessment form return on a run that finds no
\* widget state: their value= / index= arguments, computed from the answers.
\* The checkboxes have no such argument and start unchecked; the
\* capital-safety select box exists only under the capital_preservation goal.
widgets_rendered(a, d) ==
    LET goal == IF a.primary_goal # "None" THEN a.primary_goal
                ELSE FormDefaults.primary_goal
    IN  [q \in DOMAIN FormDefaults |->
          CASE q \in {"loan_types", "esg_areas"} -> {}
            [] q = "primary_goal" -> goal
            [] q = "capital_safety_importance" ->
                 IF goal = "capital_preservation"
                 THEN Get(d, "capital_safety_importance",
                          FormDefaults.capital_safety_importance)
                 ELSE None
            [] OTHER -> IF a[q] # None THEN a[q] ELSE FormDefaults[q]]

\* The widget values a submit commits: the user's edits e of the widgets
\* shown; f is the widget state of the run before.  A capital-safety select
\* box that this run creates returns its default.
widgets_committed(e, f, d) ==
    [e EXCEPT !.capital_safety_importance =
        IF e.primary_goal = "capital_preservation"
        THEN IF f.primary_goal = "capital_preservation"
             THEN e.capital_safety_importance
             ELSE Get(d, "capital_safety_importance",
                      FormDefaults.capital_safety_importance)
        ELSE None]

\* st.session_state.answers after create_assessment_tab has stored the
\* widget values w
answers_of(w, a) ==
    [q \in DOMAIN a |->
      CASE q \in {"income", "expenses"} -> IF w[q] # 0 THEN w[q] ELSE None
        [] q = "esg_areas" -> IF w.esg_importance >= 2 THEN w.esg_areas
                              ELSE a.esg_areas
        [] OTHER -> w[q]]

dependent_answers_of(w, d) ==
    IF w.primary_goal = "capital_preservation"
    THEN [capital_safety_importance |-> w.capital_safety_importance]
    ELSE d

\* The script run that renders tab: create_assessment_tab stores the widget
\* values in the answers; any other tab leaves the form's widgets unrendered,
\* and their state is dropped
RenderTab(tab, a, d, f) ==
    IF tab = "Assessment"
    THEN LET w == IF f # NoneRec THEN f ELSE widgets_rendered(a, d)
         IN  /\ form' = w
             /\ answers' = answers_of(w, a)
             /\ dependent_answers' = dependent_answers_of(w, d)
    ELSE /\ form' = NoneRec
         /\ answers' = a
         /\ dependent_answers' = d

\* the tab draws its content to the end and calls create_navigation_buttons
NavigationButtonsShown ==
    \/ /\ current_tab \in {"Financial Health", "Debt Analysis", "Risk Profile",
                           "Inflation Education"}
       /\ assessment_complete
    \/ /\ current_tab = "Recommendations"
       /\ assessment_complete
       /\ inflation_preference # "None"
       /\ safe_investment # NoneRec
    \/ /\ current_tab = "Action Plan"
       /\ assessment_complete
       /\ safe_investment # NoneRec
    \/ /\ current_tab = "Data & Export"
       /\ csv_rows > 0

\* A handler that sets current_tab and calls st.rerun().  In the session fn
\* is the helper the last click ran: calculate_results,
\* apply_inflation_preference, or none
GoTo(tab) ==
    /\ current_tab' = tab
    /\ RenderTab(tab, answers, dependent_answers, form)
    /\ fn' = "none"
    /\ UNCHANGED <<risk_data, risk_category, financial_data, debt_data,
                   safe_investment, assessment_complete, allocation,
                   recommendations, assessment_id, validation_warnings,
                   inflation_preference, show_inflation_education,
                   etfs_db, clock, csv_rows, args, ret, prev, fp_tie>>

SidebarNavigate ==
    \E i \in 1..Len(Tabs) : GoTo(Tabs[i])

SidebarStartAssessment ==
    /\ ~assessment_complete
    /\ GoTo("Assessment")

SidebarRecommendations ==
    /\ assessment_complete
    /\ inflation_preference # "None"
    /\ GoTo("Recommendations")

SidebarInflation ==
    /\ assessment_complete
    /\ inflation_preference = "None"
    /\ GoTo("Inflation Education")

\* New with inflation_preference left out of the keys it deletes
SidebarNew_keeping_preference ==
    /\ assessment_complete
    /\ RenderTab(current_tab, InitialAnswers, <<>>, NoneRec)
    /\ risk_data' = NoneRec
    /\ risk_category' = "None"
    /\ financial_data' = NoneRec
    /\ debt_data' = NoneRec
    /\ safe_investment' = NoneRec
    /\ assessment_complete' = FALSE
    /\ allocation' = NoneRec
    /\ recommendations' = NoneRec
    /\ assessment_id' = None
    /\ validation_warnings' = <<>>
    /\ show_inflation_education' = FALSE
    /\ fn' = "none"
    /\ UNCHANGED <<current_tab, inflation_preference, etfs_db,
                  clock, csv_rows, args, ret, prev, fp_tie>>

\* New: every key but current_tab is deleted, widget state included, and
\* init_session_state fills in the defaults
SidebarNew ==
    /\ assessment_complete
    /\ RenderTab(current_tab, InitialAnswers, <<>>, NoneRec)
    /\ risk_data' = NoneRec
    /\ risk_category' = "None"
    /\ financial_data' = NoneRec
    /\ debt_data' = NoneRec
    /\ safe_investment' = NoneRec
    /\ assessment_complete' = FALSE
    /\ allocation' = NoneRec
    /\ recommendations' = NoneRec
    /\ assessment_id' = None
    /\ validation_warnings' = <<>>
    /\ inflation_preference' = "None"
    /\ show_inflation_education' = FALSE
    /\ fn' = "none"
    /\ UNCHANGED <<current_tab, etfs_db, clock, csv_rows, args, ret, prev, fp_tie>>

WelcomeBegin ==
    /\ current_tab = "Welcome"
    /\ GoTo("Assessment")

\* "Go to Assessment" of a result tab without a completed assessment, and of
\* the Data & Export tab without saved rows
GoToAssessment ==
    /\ \/ /\ current_tab \in {"Financial Health", "Debt Analysis", "Risk Profile",
                              "Inflation Education", "Recommendations",
                              "Action Plan"}
          /\ ~assessment_complete
       \/ /\ current_tab = "Data & Export"
          /\ csv_rows = 0
    /\ GoTo("Assessment")

GoToInflationEducation ==
    /\ current_tab = "Recommendations"
    /\ assessment_complete
    /\ inflation_preference = "None"
    /\ GoTo("Inflation Education")

NavigatePrevious ==
    /\ NavigationButtonsShown
    /\ TabIndex(current_tab) > 1
    /\ current_tab # "Welcome"
    /\ GoTo(Tabs[TabIndex(current_tab) - 1])

NavigateNext ==
    /\ NavigationButtonsShown
    /\ TabIndex(current_tab) < Len(Tabs)
    /\ current_tab # "Data & Export"
    /\ ~(current_tab = "Assessment" /\ ~assessment_complete)
    /\ ~(current_tab = "Inflation Education" /\ inflation_preference # "None")
    /\ GoTo(Tabs[TabIndex(current_tab) + 1])

\* The three Choose buttons: the preference is stored and the run goes on
\* to its end, without a rerun
ChooseStrategy ==
    /\ current_tab = "Inflation Education"
    /\ assessment_complete
    /\ \E p \in InflationPreferences : inflation_preference' = p
    /\ fn' = "none"
    /\ UNCHANGED <<current_tab, answers, dependent_answers, risk_data,
                   risk_category, financial_data, debt_data, safe_investment,
                   assessment_complete, allocation, recommendations,
                   assessment_id, validation_warnings,
                   show_inflation_education, form, etfs_db, clock, csv_rows,
                   args, ret, prev, fp_tie>>

\* The edits a user submits: income left at its default or cleared to 0,
\* a goal with its dependent answer, and a tolerance profile
FormIncomes == {0, FormDefaults.income}

\* <<primary_goal, capital_safety_importance>>
FormGoals == {<<"capital_preservation", 3>>}

SubmittedForms ==
    {[FormDefaults EXCEPT !.income = i,
                          !.primary_goal = g[1],
                          !.capital_safety_importance = g[2],
                          !.loss_avoidance = tc[1],
                          !.market_drop_reaction = tc[2],
                          !.esg_importance = tc[3]] :
        i \in FormIncomes, g \in FormGoals, tc \in ToleranceChoices}

\* the category calculate_results would store if it classified the risk
\* tolerance score instead of the overall score
stored_risk_category_of_tolerance(rdata) ==
    get_risk_category(rdata.risk_tolerance_data.risk_tolerance_score)

\* risk_category as calculate_results stores it
stored_risk_category(rdata) == get_risk_category(rdata.overall_risk_score)

\* The form's submit button: the widget values are stored in the answers,
\* validation_warnings is cleared and calculate_results runs
SubmitAssessment ==
    /\ current_tab = "Assessment"
    /\ \E e \in SubmittedForms, now \in clock..MaxClock :
         LET w == widgets_committed(e, form, dependent_answers)
             a == answers_of(w, answers)
             d == dependent_answers_of(w, dependent_answers)
             v == validate_answers(a)
             rdata == calculate_overall_risk_score(a, d)
         IN  /\ answers' = a
             /\ dependent_answers' = d
             /\ validation_warnings' = v[2]
             /\ IF ~v[1]
                THEN /\ form' = w
                     /\ UNCHANGED <<current_tab, risk_data, risk_category,
                                    financial_data, debt_data,
                                    assessment_complete, assessment_id, clock>>
                ELSE /\ financial_data' = rdata.financial_data
                     /\ debt_data' = rdata.debt_data
                     /\ risk_data' = rdata
                     /\ risk_category' = stored_risk_category(rdata)
                     /\ assessment_complete' = TRUE
                     /\ assessment_id' = now
                     /\ clock' = now
                     /\ current_tab' = "Financial Health"
                     /\ form' = NoneRec
    /\ fn' = "calculate_results"
    /\ UNCHANGED <<safe_investment, allocation, recommendations,
                   inflation_preference, show_inflation_education, etfs_db,
                   csv_rows, args, ret, prev, fp_tie>>

\* save_assessment_to_csv: True when the row was built and appended.  Building
\* the row converts income and expenses with float(), which fails on None;
\* io_ok is whether the file could be opened and written.  Every failure is
\* caught inside the function and returned as False.
save_assessment_to_csv(a, io_ok) ==
    io_ok /\ a.income # None /\ a.expenses # None

\* current_tab if a failed save escaped apply_inflation_preference as an
\* exception: the tab is left where it was
current_tab_after_save_raising(tab, saved) ==
    IF saved THEN "Recommendations" ELSE tab

\* current_tab once apply_inflation_preference is past the save
current_tab_after_save(tab, saved) == "Recommendations"

\* "Get Recommendations" of the Inflation Education tab:
\* apply_inflation_preference.  The CSV write may fail (the handler catches
\* the exception), and does once MaxCsvRows rows are saved.
GetRecommendations ==
    /\ NavigationButtonsShown
    /\ current_tab = "Inflation Education"
    /\ inflation_preference # "None"
    /\ risk_data # NoneRec
    /\ LET inflation_pref == inflation_preference
           alloc == determine_portfolio_allocation(
                        risk_data.overall_risk_score, answers, inflation_pref)
       IN  /\ allocation' = alloc
           /\ safe_investment' =
                  calculate_safe_investment(answers, financial_data, risk_data)
           /\ recommendations' =
                  get_stock_recommendations(
                      etfs_db, risk_category, alloc,
                      Get(answers, "esg_importance", 1), inflation_pref)
           /\ etfs_db' = etfs_db_after_call(etfs_db, risk_category, inflation_pref)
    /\ show_inflation_education' = FALSE
    /\ \E io_ok \in BOOLEAN :
         LET saved == save_assessment_to_csv(answers, io_ok)
             tab == current_tab_after_save(current_tab, saved)
         IN  /\ io_ok => csv_rows < MaxCsvRows
             /\ csv_rows' = IF saved THEN csv_rows + 1 ELSE csv_rows
             /\ current_tab' = tab
             /\ RenderTab(tab, answers, dependent_answers, form)
    /\ fn' = "apply_inflation_preference"
    /\ UNCHANGED <<risk_data, risk_category, financial_data, debt_data,
                   assessment_complete, assessment_id, validation_warnings,
                   inflation_preference, clock, args, ret, prev, fp_tie>>

InitSession ==
    /\ SessionIdle
    /\ NoCall
    /\ args = NoneRec
    /\ etfs_db = ETFS_DB
    /\ fp_tie = "even"

NextSession ==
    \/ SidebarNavigate
    \/ SidebarStartAssessment
    \/ SidebarRecommendations
    \/ SidebarInflation
    \/ SidebarNew
    \/ WelcomeBegin
    \/ GoToAssessment
    \/ GoToInflationEducation
    \/ NavigatePrevious
    \/ NavigateNext
    \/ ChooseStrategy
    \/ SubmitAssessment
    \/ GetRecommendations

SpecSession == InitSession /\ [][NextSession]_vars

\* C3: the risk category stored for a completed assessment has an index in
\* 1..5 and is never a riskier category than the one get_risk_category
\* assigns to the stored overall risk score
C3_StoredCategoryWithinClassification ==
    assessment_complete =>
        /\ CategoryIndex(risk_category) \in 1..5
        /\ CategoryIndex(risk_category)
             <= CategoryIndex(get_risk_category(risk_data.overall_risk_score))

\* recommendations computed for a completed assessment whose risk tolerance
\* alone would be classified as riskier than its overall score
C3_Witness ==
    /\ assessment_complete
    /\ recommendations # NoneRec
    /\ CategoryIndex(get_risk_category(
           risk_data.risk_tolerance_data.risk_tolerance_score))
         > CategoryIndex(risk_category)

\* C9: whenever the Recommendations tab (assessment complete, inflation
\* preference set) or the Action Plan tab (assessment complete) renders its
\* result content, allocation, safe_investment and recommendations are all
\* present
C9_ResultTabsHoldCompleteResult ==
    (\/ /\ current_tab = "Recommendations"
        /\ assessment_complete
        /\ inflation_preference # "None"
     \/ /\ current_tab = "Action Plan"
        /\ assessment_complete)
    => /\ allocation # NoneRec
       /\ safe_investment # NoneRec
       /\ recommendations # NoneRec

\* the None of a question
NoneOf(q) == IF q = "primary_goal" THEN "None" ELSE None

\* validate_answers rejects the answers a, naming an unanswered question
RejectedNamingQuestion(a) ==
    /\ validate_answers(a)[1] = FALSE
    /\ \E i \in 1..Len(required_questions) :
         /\ IsNone(a, required_questions[i])
         /\ validate_answers(a)[2]
              = <<"Required question '" \o required_questions[i]
                   \o "' not answered">>

----------------------------------------------------------------------------
(* Direct calls of calculate_results on a fresh session holding given answers *)

\* What calculate_results leaves in the session: on invalid answers the
\* warnings only, otherwise the scores and the category
calculated_results(a, d) ==
    LET v == validate_answers(a)
        rdata == calculate_overall_risk_score(a, d)
    IN  IF ~v[1]
        THEN [is_valid |-> FALSE,
              validation_warnings |-> v[2],
              financial_data |-> NoneRec,
              debt_data |-> NoneRec,
              risk_data |-> NoneRec,
              risk_category |-> "None",
              assessment_complete |-> FALSE]
        ELSE [is_valid |-> TRUE,
              validation_warnings |-> v[2],
              financial_data |-> rdata.financial_data,
              debt_data |-> rdata.debt_data,
              risk_data |-> rdata,
              risk_category |-> stored_risk_category(rdata),
              assessment_complete |-> TRUE]

\* The options the form offers for each tier question
TierRanges ==
    [emergency_fund |-> 1..6, income_stability |-> 1..4, dependents |-> 0..4,
     emi_percentage |-> 1..4, timeframe |-> 1..6, loss_avoidance |-> 1..5,
     market_drop_reaction |-> 1..5, experience |-> 1..6, knowledge |-> 1..6,
     liquidity_needs |-> 1..6, age_group |-> 1..6]

ResultIncomes == {None, 20000, 50000}
ResultExpenses == {10000, 35000}

\* Answer sets as a caller may pass them: tiers inside and outside the
\* form's options, income unanswered, low and at the form's default
ResultAnswers ==
    {[BaseAnswers EXCEPT !.income = i, !.expenses = e, !.emergency_fund = ef,
                         !.income_stability = st, !.emi_percentage = em,
                         !.loan_types = ln, !.loss_avoidance = tc[1],
                         !.market_drop_reaction = tc[2],
                         !.esg_importance = tc[3]] :
        i \in ResultIncomes, e \in ResultExpenses, ef \in {1, 2, 3, 9},
        st \in {2, 7}, em \in {0, 1}, ln \in LoanChoices,
        tc \in ToleranceChoices}

InitResults ==
    /\ SessionIdle
    /\ NoCall
    /\ etfs_db = ETFS_DB
    /\ fp_tie \in TieRules
    /\ args \in [answers : ResultAnswers, dependent_answers : {<<>>}]

CallCalculateResults ==
    /\ fn = "none"
    /\ fn' = "calculate_results"
    /\ ret' = calculated_results(args.answers, args.dependent_answers)
    /\ prev' = NoneRec
    /\ UNCHANGED <<session_vars, etfs_db, args, fp_tie>>

NextResults == CallCalculateResults

SpecResults == InitResults /\ [][NextResults]_vars

\* a tier answer of the call lies outside the options of its question
ArgOutOfRange ==
    \E q \in DOMAIN TierRanges :
        args.answers[q] # None /\ args.answers[q] \notin TierRanges[q]

\* C11: an answer set with a required tier answer outside its allowed range
\* is rejected by validate_answers and not evaluated: no result is produced
C11_OutOfRangeRejected ==
    (fn = "calculate_results" /\ ArgOutOfRange) =>
        /\ ~ret.is_valid
        /\ ret.risk_data = NoneRec
        /\ ret.financial_data = NoneRec
        /\ ~ret.assessment_complete

\* C12: an assessment submitted with a monthly income of 0 and every other
\* question answered is evaluated on the documented defaults: the submit
\* stores a result for income 0 and raises no validation failure
C12_ZeroIncomeEvaluated ==
    (fn = "calculate_results" /\ answers.income \in {0, None}) =>
        /\ validation_warnings = <<>>
        /\ assessment_complete
        /\ financial_data # NoneRec
        /\ financial_data.monthly_income = 0

\* C13: with a monthly income of 0, calculate_financial_score divides by
\* nothing: savings_rate, savings_component and disposable_income are 0 and
\* financial_score is the defined weighted sum of the three other components,
\* whatever the other answers are
C13_ZeroIncomeDefaults ==
    (fn = "calculate_financial_score" /\ args.answers.income = 0) =>
        /\ ret.savings_rate = 0
        /\ ret.savings_component = 0
        /\ ret.disposable_income = 0
        /\ ret.financial_score \in 0..10000
        /\ 100 * ret.financial_score =
               35 * ret.emergency_component
               + 25 * ret.income_stability_component
               + 20 * ret.dependents_adjustment

\* a call with no income but expenses, which still scores above zero
C13_Witness ==
    /\ fn = "calculate_financial_score"
    /\ args.answers.income = 0
    /\ args.answers.expenses > 0
    /\ ret.financial_score > 0
    /\ ret.monthly_income = 0

\* C14: when the CSV row is not appended, apply_inflation_preference still
\* leaves the computed allocation, safe_investment and recommendations in the
\* session and moves current_tab to Recommendations
C14_FailedSaveKeepsResults ==
    [][(fn' = "apply_inflation_preference" /\ current_tab = "Inflation Education"
        /\ csv_rows' = csv_rows) =>
           /\ allocation' =
                  determine_portfolio_allocation(
                      risk_data.overall_risk_score, answers, inflation_preference)
           /\ safe_investment' =
                  calculate_safe_investment(answers, financial_data, risk_data)
           /\ recommendations' # NoneRec
           /\ current_tab' = "Recommendations"]_vars

\* Get Recommendations has run, nothing was ever saved, and the results are
\* shown on the Recommendations tab
C14_Witness ==
    /\ fn = "apply_inflation_preference"
    /\ csv_rows = 0
    /\ allocation # NoneRec
    /\ safe_investment # NoneRec
    /\ recommendations # NoneRec
    /\ current_tab = "Recommendations"

\* C15: for answers within the form's options, when the emergency-fund tier
\* is below 3 or high-interest debt is present, the final risk category lies exactly one index below the
\* threshold classification of the overall score (never below index 1)
C15_WeakFinancesDowngradeOnce ==
    (/\ fn = "calculate_results"
     /\ ret.is_valid
     /\ ~ArgOutOfRange
     /\ \/ args.answers.emergency_fund < 3
        \/ ret.debt_data.bad_debt_count > 0) =>
        CategoryIndex(ret.risk_category) =
            Max(1, CategoryIndex(
                       get_risk_category(ret.risk_data.overall_risk_score)) - 1)

\* C16: for every answer set within the form's options with a monthly
\* income below 25000, the final
\* risk category is at most index 3: never HIGH RISK or VERY HIGH RISK
C16_LowIncomeCappedAtMedium ==
    (/\ fn = "calculate_results"
     /\ ret.is_valid
     /\ ~ArgOutOfRange
     /\ args.answers.income < 25000) =>
        CategoryIndex(ret.risk_category) <= 3

\* The buckets of the call as rounded to one decimal, before the correction
ArgRounded ==
    normalize_and_round(
        raw_allocation(args.overall_risk_score, args.answers,
                       args.inflation_preference))

\* C17: when the rounded buckets do not sum to 100, the correction changes
\* exactly one bucket, a largest one, by the residual, and every other bucket
\* keeps its rounded value; when they already sum to 100, no bucket changes
C17_ResidualGoesToLargestBucket ==
    fn = "determine_portfolio_allocation" =>
        LET r == ArgRounded
            residual == 1000 - SumAlloc(r)
        IN  IF residual = 0
            THEN ret = r
            ELSE \E k \in DOMAIN r :
                    /\ \A b \in DOMAIN r : r[b] <= r[k]
                    /\ ret[k] = r[k] + residual
                    /\ \A b \in DOMAIN r \ {k} : ret[b] = r[b]

\* a call whose rounded buckets sum to more than 100.0: the largest bucket
\* comes back lowered and some other bucket is non-zero and unchanged
C17_Witness ==
    /\ fn = "determine_portfolio_allocation"
    /\ SumAlloc(ArgRounded) > 1000
    /\ ret[largest_key(ArgRounded)] < ArgRounded[largest_key(ArgRounded)]
    /\ \E b \in DOMAIN ret : b # largest_key(ArgRounded) /\ ret[b] > 0
                             /\ ret[b] = ArgRounded[b]

\* C18: in every session state with assessment_complete true, the answers
\* held are a valid answer set and the stored financial_data, debt_data,
\* risk_data and risk_category are the ones computed from them, whatever
\* form submissions (failing ones included) and navigation came before
C18_StoredResultsMatchAnswers ==
    assessment_complete =>
        /\ validate_answers(answers)[1]
        /\ risk_data = calculate_overall_risk_score(answers, dependent_answers)
        /\ financial_data = calculate_financial_score(answers)
        /\ debt_data = calculate_debt_score(answers)
        /\ risk_category = get_risk_category(risk_data.overall_risk_score)

\* C19: whenever the Recommendations tab shows an allocation with the
\* selected inflation strategy and the answers held are valid, the stored allocation, safe_investment and
\* recommendations are the ones computed from the current overall risk score,
\* the current answers and the current inflation_preference
C19_ShownPlanMatchesSelection ==
    (/\ current_tab = "Recommendations"
     /\ assessment_complete
     /\ validate_answers(answers)[1]
     /\ inflation_preference # "None"
     /\ allocation # NoneRec) =>
        /\ allocation =
               determine_portfolio_allocation(
                   risk_data.overall_risk_score, answers, inflation_preference)
        /\ safe_investment =
               calculate_safe_investment(answers, financial_data, risk_data)
        /\ recommendations =
               get_stock_recommendations(
                   etfs_db, risk_category, allocation,
                   Get(answers, "esg_importance", 1), inflation_preference)

----------------------------------------------------------------------------
(* Direct calls of calculate_debt_score *)

DebtTypes == good_debt_types \cup bad_debt_types \cup neutral_debt_types

\* every loan list over the nine classified types, with every EMI tier
DebtAnswers ==
    {[BaseAnswers EXCEPT !.loan_types = ln, !.emi_percentage = em] :
        ln \in SUBSET DebtTypes, em \in 1..4}

InitDebt ==
    /\ SessionIdle
    /\ NoCall
    /\ etfs_db = ETFS_DB
    /\ fp_tie = "even"
    /\ args \in [answers : DebtAnswers]

CallCalculateDebtScore ==
    /\ fn = "none"
    /\ fn' = "calculate_debt_score"
    /\ ret' = calculate_debt_score(args.answers)
    /\ prev' = NoneRec
    /\ UNCHANGED <<session_vars, etfs_db, args, fp_tie>>

NextDebt == CallCalculateDebtScore

SpecDebt == InitDebt /\ [][NextDebt]_vars

\* C20: calculate_debt_score returns debt_score 100 for an empty loan list,
\* whatever the EMI tier; otherwise loan_type_score is
\* 50 + 20*good - 30*bad + 5*neutral clamped to 0..100, emi_score is
\* 100/75/50/25 for tier 1/2/3/4 and debt_score is
\* 0.6*loan_type_score + 0.4*emi_score; the result always lies in 0..100
C20_DebtScoreFormula ==
    fn = "calculate_debt_score" =>
        LET loans == args.answers.loan_types
            good == Cardinality({l \in loans : l \in {"home_loan", "education_loan",
                                                      "business_loan"}})
            bad == Cardinality({l \in loans : l \in {"personal_loan", "credit_card",
                                                     "consumer_loan", "payday_loan"}})
            neutral == Cardinality({l \in loans : l \in {"gold_loan",
                                                         "property_loan"}})
            unclamped == 50 + 20 * good - 30 * bad + 5 * neutral
            clamped == IF unclamped < 0 THEN 0
                       ELSE IF unclamped > 100 THEN 100 ELSE unclamped
            emi == <<100, 75, 50, 25>>[args.answers.emi_percentage]
        IN  /\ ret.debt_score \in 0..10000
            /\ IF loans = {}
               THEN ret.debt_score = 10000
               ELSE /\ ret.loan_type_score = 100 * clamped
                    /\ ret.emi_score = 100 * emi
                    /\ 10 * ret.debt_score =
                           6 * ret.loan_type_score + 4 * ret.emi_score

\* a call with loans whose unclamped loan-type score is below 0, at an EMI
\* tier above 1: both the clamp and the EMI map decide the score
C20_Witness ==
    /\ fn = "calculate_debt_score"
    /\ ret.has_debt
    /\ ret.bad_debt_count >= 2
    /\ ret.good_debt_count = 0
    /\ ret.loan_type_score = 0
    /\ args.answers.emi_percentage > 1
    /\ ret.debt_score = 40 * emi_percentage_map[args.answers.emi_percentage]

----------------------------------------------------------------------------
(* Direct calls of calculate_overall_risk_score on valid answer sets *)

\* <<primary_goal, dependent_answers>>: no adjustment, the largest and the
\* smallest one
OverallGoals ==
    {<<"not_sure", <<>>>>,
     <<"retirement", [years_to_retirement |-> 3]>>,
     <<"regular_income", [income_start_timing |-> 1]>>}

\* <<experience, knowledge>>
OverallKnowledge == {<<1, 1>>, <<6, 6>>, <<2, 5>>}

\* Valid answer sets with every question at the ends of its range, and a
\* savings rate that is no whole number of hundredths
OverallArgs ==
    {[answers |->
        [BaseAnswers EXCEPT !.income = 40000, !.expenses = e,
                            !.emergency_fund = ef, !.income_stability = st,
                            !.dependents = dp, !.loan_types = ln,
                            !.emi_percentage = em, !.loss_avoidance = la,
                            !.market_drop_reaction = mdr,
                            !.esg_importance = esg, !.primary_goal = g[1],
                            !.timeframe = tf, !.liquidity_needs = lq,
                            !.experience = kn[1], !.knowledge = kn[2]],
      dependent_answers |-> g[2]] :
        e \in {0, 30000, 50000}, ef \in {1, 6}, st \in {1, 4}, dp \in {0, 4},
        ln \in {{}, good_debt_types, bad_debt_types}, em \in {1, 4},
        la \in {1, 5}, mdr \in {1, 5}, esg \in {1, 4}, g \in OverallGoals,
        tf \in {1, 6}, lq \in {1, 6}, kn \in OverallKnowledge}

InitOverall ==
    /\ SessionIdle
    /\ NoCall
    /\ etfs_db = ETFS_DB
    /\ fp_tie \in TieRules
    /\ args \in OverallArgs

CallCalculateOverallRiskScore ==
    /\ fn = "none"
    /\ fn' = "calculate_overall_risk_score"
    /\ ret' = calculate_overall_risk_score(args.answers, args.dependent_answers)
    /\ prev' = NoneRec
    /\ UNCHANGED <<session_vars, etfs_db, args, fp_tie>>

NextOverall == CallCalculateOverallRiskScore

SpecOverall == InitOverall /\ [][NextOverall]_vars

\* the weighted sum of the five returned sub-scores, in ten-thousandths
RetWeightedSum ==
    25 * ret.financial_data.financial_score
    + 15 * ret.debt_data.debt_score
    + 25 * ret.risk_tolerance_data.risk_tolerance_score
    + 20 * ret.horizon_data.horizon_score
    + 15 * ret.knowledge_data.knowledge_score

\* C21: for every valid answer set each of the five sub-scores lies in
\* 0..100, the five weights used sum to 1.0, and overall_risk_score is the
\* weighted sum of the sub-scores (to the two decimals it is reported in)
\* and lies in 0..100
C21_OverallIsWeightedSum ==
    fn = "calculate_overall_risk_score" =>
        /\ ret.financial_data.financial_score \in 0..10000
        /\ ret.debt_data.debt_score \in 0..10000
        /\ ret.risk_tolerance_data.risk_tolerance_score \in 0..10000
        /\ ret.horizon_data.horizon_score \in 0..10000
        /\ ret.knowledge_data.knowledge_score \in 0..10000
        /\ ret.weights_used.financial_stability + ret.weights_used.debt_situation
           + ret.weights_used.risk_tolerance + ret.weights_used.investment_horizon
           + ret.weights_used.knowledge_experience = 100
        /\ 100 * ret.overall_risk_score - RetWeightedSum \in -50..50
        /\ ret.overall_risk_score \in 0..10000

\* a call whose weighted sum is no whole number of hundredths, with one
\* sub-score at 100 and another at 0
C21_Witness ==
    /\ fn = "calculate_overall_risk_score"
    /\ RetWeightedSum % 100 # 0
    /\ ret.debt_data.debt_score = 10000
    /\ ret.knowledge_data.knowledge_score = 0
    /\ ret.overall_risk_score > 0

\* Equity before the reserve is taken out, over 250000: base equity times
\* (0.6 + 0.4 * score / 100) times the strategy's adjustment
ArgAdjustedEquity ==
    AGE_EQUITY_MAP[args.answers.age_group] * (15000 + args.overall_risk_score)
    * (CASE args.inflation_preference = "growth" -> 10
         [] args.inflation_preference = "balanced" -> 8
         [] OTHER -> 6)

\* the four equity buckets of the returned allocation, in tenths
RetEquity == ret.Large_Cap + ret.Mid_Cap + ret.Small_Cap + ret.Growth

\* C22: for every score and age group the Inflation_Protection bucket of the
\* returned allocation is exactly 0 for growth, 10 for balanced and 20 for
\* protection (normalization and the largest-bucket correction leave it
\* alone), and the reserve comes out of equity, which stops at 0: the equity
\* buckets hold the adjusted equity less the reserve, or nothing, to within
\* the rounding of the buckets
C22_InflationReserveExact ==
    fn = "determine_portfolio_allocation" =>
        LET reserve == CASE args.inflation_preference = "growth" -> 0
                         [] args.inflation_preference = "balanced" -> 100
                         [] OTHER -> 200
            left == ArgAdjustedEquity - 25000 * reserve
        IN  /\ ret.Inflation_Protection = reserve
            /\ \A b \in DOMAIN ret : ret[b] >= 0
            /\ IF left >= 0
               THEN /\ 25000 * RetEquity - left \in -125000..125000
                    /\ 25000 * (1000 - ret.Fixed_Income) - ArgAdjustedEquity
                           \in -125000..125000
               ELSE /\ RetEquity = 0
                    /\ ret.Fixed_Income = 1000 - reserve

\* two calls in one: the protection reserve survives a largest-bucket
\* correction with equity left over
C22_Witness ==
    /\ fn = "determine_portfolio_allocation"
    /\ args.inflation_preference = "protection"
    /\ SumAlloc(ArgRounded) # 1000
    /\ RetEquity > 0
    /\ ret.Inflation_Protection = 200

----------------------------------------------------------------------------
(* Direct calls of get_stock_recommendations *)

\* Allocations in tenths of a percent: each stock bucket empty, below 10%
\* (one stock) or above 20% (two stocks)
StockAllocations ==
    {[b \in {Buckets[i] : i \in 1..6} |->
        IF b = "Fixed_Income" THEN fi ELSE x[b]] :
        x \in [DOMAIN STOCKS_DB -> {0, 80, 250}], fi \in {0, 500}}

InitStocks ==
    /\ SessionIdle
    /\ NoCall
    /\ etfs_db = ETFS_DB
    /\ fp_tie = "even"
    /\ args \in [risk_category : {"MEDIUM RISK", "VERY HIGH RISK"},
                 allocation : StockAllocations,
                 esg_importance : 1..4,
                 inflation_preference : InflationPreferences]

CallGetStockRecommendations ==
    /\ fn = "none"
    /\ fn' = "get_stock_recommendations"
    /\ ret' = get_stock_recommendations(etfs_db, args.risk_category,
                                        args.allocation, args.esg_importance,
                                        args.inflation_preference)
    /\ etfs_db' = etfs_db_after_call(etfs_db, args.risk_category,
                                     args.inflation_preference)
    /\ prev' = NoneRec
    /\ UNCHANGED <<session_vars, args, fp_tie>>

NextStocks == CallGetStockRecommendations

SpecStocks == InitStocks /\ [][NextStocks]_vars

\* the positions of the returned stocks that are listed under bucket b
RetStocksOf(b) ==
    {i \in 1..Len(ret.stocks) :
        \E j \in 1..Len(STOCKS_DB[b]) : STOCKS_DB[b][j] = ret.stocks[i]}

----------------------------------------------------------------------------
(* Direct calls of calculate_risk_tolerance *)

\* every loss-avoidance and market-drop option of the form, with every ESG
\* importance
ToleranceAnswers ==
    {[BaseAnswers EXCEPT !.loss_avoidance = la, !.market_drop_reaction = mdr,
                         !.esg_importance = esg] :
        la \in 1..5, mdr \in 1..5, esg \in 1..4}

InitTolerance ==
    /\ SessionIdle
    /\ NoCall
    /\ etfs_db = ETFS_DB
    /\ fp_tie = "even"
    /\ args \in [answers : ToleranceAnswers]

CallCalculateRiskTolerance ==
    /\ fn = "none"
    /\ fn' = "calculate_risk_tolerance"
    /\ ret' = calculate_risk_tolerance(args.answers)
    /\ prev' = NoneRec
    /\ UNCHANGED <<session_vars, etfs_db, args, fp_tie>>

NextTolerance == CallCalculateRiskTolerance

SpecTolerance == InitTolerance /\ [][NextTolerance]_vars

\* C24: risk_tolerance_score is 0.6*loss_avoidance + 0.4*emotional_reaction
\* less 0, 5, 10 or 20 points for ESG importance 1, 2, 3 or 4, clamped to
\* 0..100; with the other answers fixed, a higher ESG importance never
\* raises it
C24_EsgAdjustmentLowersTolerance ==
    fn = "calculate_risk_tolerance" =>
        LET points == <<0, 5, 10, 20>>[args.answers.esg_importance]
            unclamped == (6 * ret.loss_avoidance + 4 * ret.emotional_reaction) \div 10
                         - 100 * points
        IN  /\ ret.risk_tolerance_score =
                   (IF unclamped < 0 THEN 0
                    ELSE IF unclamped > 10000 THEN 10000 ELSE unclamped)
            /\ \A esg \in 1..4 :
                  esg >= args.answers.esg_importance =>
                      calculate_risk_tolerance(
                          [args.answers EXCEPT !.esg_importance = esg]
                      ).risk_tolerance_score <= ret.risk_tolerance_score

\* a call at ESG importance 3 with a positive score that importance 4 brings
\* down to the lower clamp
C24_Witness ==
    /\ fn = "calculate_risk_tolerance"
    /\ args.answers.esg_importance = 3
    /\ ret.risk_tolerance_score > 0
    /\ ret.esg_adjustment = -10
    /\ calculate_risk_tolerance(
           [args.answers EXCEPT !.esg_importance = 4]).risk_tolerance_score = 0

\* C27: with the other answers fixed, a higher loss_avoidance tier
\* (1 = cannot tolerate loss ... 5 = not a priority, focus on growth) never
\* lowers risk_tolerance_score and never lowers max_tolerable_loss_pct
C27_LossAvoidanceTierMonotone ==
    fn = "calculate_risk_tolerance" =>
        \A tier \in 1..5 :
            tier >= args.answers.loss_avoidance =>
                LET higher == calculate_risk_tolerance(
                                  [args.answers EXCEPT !.loss_avoidance = tier])
                IN  /\ higher.risk_tolerance_score >= ret.risk_tolerance_score
                    /\ higher.max_tolerable_loss_pct >= ret.max_tolerable_loss_pct

----------------------------------------------------------------------------
(* Direct calls of calculate_safe_investment over the multipliers' ranges *)

\* Answer sets with 0..6 dependents, every stability tier, a small and a
\* large savings rate, and emergency tiers with and without a gap
SizingAnswers ==
    {[BaseAnswers EXCEPT !.income = i, !.expenses = 36000,
                         !.emergency_fund = ef, !.income_stability = st,
                         !.dependents = dp, !.loan_types = ln,
                         !.emi_percentage = em, !.loss_avoidance = tc[1],
                         !.market_drop_reaction = tc[2],
                         !.esg_importance = tc[3]] :
        i \in {40000, 80000, 200000}, ef \in {1, 2, 3, 4, 6}, st \in 1..4,
        dp \in 0..6, ln \in LoanChoices, em \in 1..4, tc \in ToleranceChoices}

InitSizing ==
    /\ SessionIdle
    /\ NoCall
    /\ etfs_db = ETFS_DB
    /\ fp_tie \in {"even", "up"}
    /\ args \in [answers : SizingAnswers, dependent_answers : {<<>>}]

NextSizing == CallCalculateSafeInvestment

SpecSizing == InitSizing /\ [][NextSizing]_vars

\* The plan for answers a, computed as apply_inflation_preference does
plan_of(a, d) ==
    calculate_safe_investment(a, calculate_financial_score(a),
                              calculate_overall_risk_score(a, d))

\* base_percentage of the call, over 2000000: fh_multiplier times
\* (0.5 + 0.5 * risk_tolerance / 100)
ArgBasePercentage ==
    LET financial_score == calculate_financial_score(args.answers).financial_score
        risk_tolerance == calculate_risk_tolerance(args.answers).risk_tolerance_score
    IN  (IF financial_score < 4000 THEN 0
         ELSE IF financial_score < 6000 THEN 15
         ELSE IF financial_score < 8000 THEN 25
         ELSE 35) * (10000 + risk_tolerance)

\* C25: in the sized branch the dependents multiplier is 1 - 0.1*dependents,
\* at least 0.5, the stability multiplier is 1.0/0.8/0.6/0.0 for
\* income_stability 1/2/3/4, investment_percentage never exceeds the base
\* percentage and a financial_score below 40 gives safe_monthly_investment 0;
\* with everything else fixed, more dependents never increase
\* safe_monthly_investment
C25_MultipliersOnlyShrink ==
    fn = "calculate_safe_investment" =>
        /\ ret.suitability.suitability # "NOT SUITABLE" =>
              /\ ret.dependents_multiplier =
                     (IF args.answers.dependents >= 5 THEN 50
                      ELSE 100 - 10 * args.answers.dependents)
              /\ ret.stability_multiplier =
                     <<100, 80, 60, 0>>[args.answers.income_stability]
              /\ 200 * ret.investment_percentage <= ArgBasePercentage + 100
              /\ calculate_financial_score(args.answers).financial_score < 4000
                     => ret.safe_monthly_investment = 0
        /\ \A dp \in 0..6 :
              dp >= args.answers.dependents =>
                  plan_of([args.answers EXCEPT !.dependents = dp],
                          args.dependent_answers).safe_monthly_investment
                  <= ret.safe_monthly_investment

\* a sized plan for two dependents that invests, where six dependents (the
\* multiplier at its floor) invest strictly less
C25_Witness ==
    /\ fn = "calculate_safe_investment"
    /\ ret.suitability.suitability # "NOT SUITABLE"
    /\ args.answers.dependents = 2
    /\ args.answers.income_stability = 2
    /\ ret.safe_monthly_investment > 0
    /\ 200 * ret.investment_percentage < ArgBasePercentage
    /\ plan_of([args.answers EXCEPT !.dependents = 6],
               args.dependent_answers).safe_monthly_investment
       < ret.safe_monthly_investment

\* The emergency-fund gap of the call in half months, and the build_timeline
\* the sized branch derives from it: min(18, max(6, int(gap_months * 3)))
ArgGapHalfMonths ==
    Max(0, (IF args.answers.income_stability <= 2 THEN 12 ELSE 18)
           - <<0, 1, 4, 10, 19, 30>>[args.answers.emergency_fund])

ArgBuildTimeline == Min(18, Max(6, (ArgGapHalfMonths * 3) \div 2))

\* C26: in every sized plan with an emergency-fund gap and income to save,
\* the reported ef_build_timeline is the number of months monthly_ef_saving
\* was sized with (ef_gap_amount / timeline); without a gap it is 0
C26_ReportedTimelineIsTheOneUsed ==
    (/\ fn = "calculate_safe_investment"
     /\ ret.suitability.suitability # "NOT SUITABLE"
     /\ ArgDisposable > 0) =>
        IF ret.ef_gap_amount > 0
        THEN ret.ef_build_timeline = ArgBuildTimeline
        ELSE ret.ef_build_timeline = 0

----------------------------------------------------------------------------
(* Direct calls of calculate_horizon_score *)

\* every timeframe and liquidity option of the form, with three goals
HorizonArgs ==
    {[answers |-> [BaseAnswers EXCEPT !.primary_goal = g[1], !.timeframe = tf,
                                      !.liquidity_needs = lq],
      dependent_answers |-> g[2]] :
        g \in OverallGoals, tf \in 1..6, lq \in 1..6}

InitHorizon ==
    /\ SessionIdle
    /\ NoCall
    /\ etfs_db = ETFS_DB
    /\ fp_tie = "even"
    /\ args \in HorizonArgs

CallCalculateHorizonScore ==
    /\ fn = "none"
    /\ fn' = "calculate_horizon_score"
    /\ ret' = calculate_horizon_score(args.answers, args.dependent_answers)
    /\ prev' = NoneRec
    /\ UNCHANGED <<session_vars, etfs_db, args, fp_tie>>

NextHorizon == CallCalculateHorizonScore

SpecHorizon == InitHorizon /\ [][NextHorizon]_vars

\* C28: liquidity_needs is read in one direction: tier 1, which the
\* suitability check blocks as the greatest liquidity need, never gets a
\* higher liquidity component than a tier with less need, so with all else
\* fixed a higher liquidity_needs tier never lowers horizon_score
C28_LiquidityTierOneDirection ==
    fn = "calculate_horizon_score" =>
        \A tier \in 1..6 :
            tier >= args.answers.liquidity_needs =>
                LET higher == calculate_horizon_score(
                                  [args.answers EXCEPT !.liquidity_needs = tier],
                                  args.dependent_answers)
                IN  /\ higher.liquidity_component >= ret.liquidity_component
                    /\ higher.horizon_score >= ret.horizon_score

\* C29: for answers that declare no loans, at every EMI tier 1..4, all
\* debt-related outputs agree that there is no debt: debt_score is 100,
\* has_debt is false, the plan reserves no monthly_debt_payment in the sized
\* branch, and the suitability check reports neither a debt-related blocking
\* issue nor a debt-related warning
C29_NoLoansNoDebtAnywhere ==
    (fn = "calculate_safe_investment" /\ args.answers.loan_types = {}) =>
        LET ddata == calculate_debt_score(args.answers)
            issues == ret.suitability.blocking_issues
            warnings == ret.suitability.warnings
        IN  /\ ddata.debt_score = 10000
            /\ ~ddata.has_debt
            /\ ret.suitability.suitability # "NOT SUITABLE"
                   => ret.monthly_debt_payment = 0
            /\ \A i \in 1..Len(issues) :
                   issues[i] # "Debt EMI exceeds 60% of income"
            /\ \A i \in 1..Len(warnings) : warnings[i] # "Has bad debt"


\* C30: clicking 'New' in a session with a completed assessment leaves every
\* session key except current_tab at its initial default (all answers None
\* or empty, dependent_answers empty, every result None, assessment_complete
\* false, inflation_preference None) and leaves current_tab unchanged.
C30_NewResetsSession ==
    [][SidebarNew => (init_session_state' /\ current_tab' = current_tab)]_vars


\* C30 (amended): clicking 'New' leaves current_tab unchanged and every
\* result key, dependent_answers, assessment_complete and
\* inflation_preference at its initial default; the answers are the initial
\* ones (None or empty) unless the current tab is Assessment, whose form is
\* drawn again in the same run and stores its default selections.
C30_NewLeavesFreshSession ==
    [][SidebarNew =>
        /\ current_tab' = current_tab
        /\ risk_data' = NoneRec /\ risk_category' = "None"
        /\ financial_data' = NoneRec /\ debt_data' = NoneRec
        /\ safe_investment' = NoneRec /\ allocation' = NoneRec
        /\ recommendations' = NoneRec /\ assessment_id' = None
        /\ ~assessment_complete' /\ inflation_preference' = "None"
        /\ validation_warnings' = <<>> /\ ~show_inflation_education'
        /\ dependent_answers' = <<>>
        /\ answers' = IF current_tab = "Assessment"
                      THEN [q \in DOMAIN InitialAnswers |-> FormDefaults[q]]
                      ELSE InitialAnswers]_vars

\* a saved assessment was cleared by 'New' on the Assessment tab
C30_Witness ==
    /\ csv_rows > 0
    /\ ~assessment_complete
    /\ financial_data = NoneRec /\ recommendations = NoneRec
    /\ inflation_preference = "None"
    /\ current_tab = "Assessment"
    /\ answers.income = FormDefaults.income

====
